---- MODULE Spec2Model ----
(***************************************************************************)
(* Model of the OpenViking hybrid retrieval index: the brute-force vector  *)
(* store with its sparse head (bruteforce.h, sparse_dataset.h,             *)
(* sparse_row_index.cpp), the scalar field set (bitmap_field_group.h/.cpp),*)
(* the filter / sorter DSL (filter_ops.cpp, sort_ops.cpp, op_base.cpp) and *)
(* the index manager with its reader-writer lock (index_manager_impl.cpp). *)
(*                                                                         *)
(* Objects are records whose fields carry the names of the C++ members.    *)
(* Member functions are operators from an object (and arguments) to the    *)
(* object after the call; an operator that can throw returns the object    *)
(* together with a flag `threw`.                                           *)
(***************************************************************************)
EXTENDS Integers, Sequences, FiniteSets, TLC

\* ------------------------------------------------------------------ bounds
MaxLabel == 2        \* labels are 1..MaxLabel
MaxOffset == 3       \* adds of new labels stop once next_logical_offset_ reaches it
MaxTerm == 2         \* hashed sparse terms are 1..MaxTerm
MaxVec == 1          \* a dense vector is one coordinate in 0..MaxVec
MaxBatch == 2        \* records per add_data / delete_data batch
MaxTopk == 2         \* search limits are 0..MaxTopk
MaxValue == 2        \* the values of a numeric field are 0..MaxValue
MaxConds == 2        \* a logic op built for a check has 1..MaxConds children
MaxDepth == 1        \* the N of a "para" of "-d=N" is -1..MaxDepth
MaxStamp == 2        \* the clock readings are 1..MaxStamp

\* a slot is split above twice this size: 10000 in the source, scaled to the
\* offsets of the model so that slots do split
kRangedMapSlotSize == MaxOffset \div 3

Labels == 1..MaxLabel
Terms == 1..MaxTerm
Vectors == 0..MaxVec

\* ------------------------------------------------------- generic helpers
Range(f) == {f[x] : x \in DOMAIN f}

Max(a, b) == IF a >= b THEN a ELSE b

Min(a, b) == IF a <= b THEN a ELSE b

\* f with key k bound to v (std::map / unordered_map operator[] assignment)
MapPut(f, k, v) == [x \in (DOMAIN f) \cup {k} |-> IF x = k THEN v ELSE f[x]]

\* f without key k (erase)
MapErase(f, k) == [x \in (DOMAIN f) \ {k} |-> f[x]]

EmptyMap == [x \in {} |-> 0]

\* ascending sequence of a finite set of integers
RECURSIVE SortedSeq(_)
SortedSeq(S) ==
  IF S = {} THEN <<>>
  ELSE LET m == CHOOSE x \in S : \A y \in S : x <= y
       IN <<m>> \o SortedSeq(S \ {m})

\* ============================================================ sparse head
\* SparseDataset: CSR rows.  offsets_[1] = 0; row i (0-based) occupies
\* flat_indices_ positions offsets_[i+1]+1 .. offsets_[i+2].
SparseDatasetInit == [offsets_ |-> <<0>>, flat_indices_ |-> <<>>]

SparseDataset_size(ds) == Len(ds.offsets_) - 1

SparseDataset_append(ds, indices) ==
  [offsets_ |-> Append(ds.offsets_, Len(ds.flat_indices_) + Len(indices)),
   flat_indices_ |-> ds.flat_indices_ \o indices]

\* update(idx, dp): returns the dataset and whether "update out of bounds" was thrown
SparseDataset_update(ds, idx, indices) ==
  IF idx >= Len(ds.offsets_) - 1
  THEN [ds |-> ds, threw |-> TRUE]
  ELSE LET old_start == ds.offsets_[idx + 1]
           old_end == ds.offsets_[idx + 2]
           diff == Len(indices) - (old_end - old_start)
       IN [ds |-> [offsets_ |-> [i \in 1..Len(ds.offsets_) |->
                                   IF i >= idx + 2 THEN ds.offsets_[i] + diff
                                   ELSE ds.offsets_[i]],
                   flat_indices_ |-> SubSeq(ds.flat_indices_, 1, old_start) \o indices
                                     \o SubSeq(ds.flat_indices_, old_end + 1,
                                               Len(ds.flat_indices_))],
           threw |-> FALSE]

\* get_row(i): the row content, or a throw when i is out of bounds
SparseDataset_get_row(ds, i) ==
  IF i >= Len(ds.offsets_) - 1
  THEN [row |-> <<>>, threw |-> TRUE]
  ELSE [row |-> SubSeq(ds.flat_indices_, ds.offsets_[i + 1] + 1, ds.offsets_[i + 2]),
        threw |-> FALSE]

SparseDataset_pop_back(ds) ==
  IF Len(ds.offsets_) <= 1 THEN ds
  ELSE [offsets_ |-> SubSeq(ds.offsets_, 1, Len(ds.offsets_) - 1),
        flat_indices_ |-> SubSeq(ds.flat_indices_, 1,
                                 ds.offsets_[Len(ds.offsets_) - 1])]

\* SparseRowIndex::index_by_terms: ids of the terms, assigning the next id to
\* every unseen term (term_index_[term] = term_index_.size()), duplicates
\* merged, sorted by id.
RECURSIVE index_by_terms(_, _)
index_by_terms(term_index, terms) ==
  IF terms = <<>> THEN [term_index_ |-> term_index, ids |-> {}]
  ELSE LET t == Head(terms)
           ti == IF t \in DOMAIN term_index THEN term_index
                 ELSE MapPut(term_index, t, Cardinality(DOMAIN term_index))
           rest == index_by_terms(ti, Tail(terms))
       IN [term_index_ |-> rest.term_index_, ids |-> {ti[t]} \cup rest.ids]

\* A sparse argument (FloatValSparseDatapointLowLevel*): null, or the raw terms
\* and the number of values that came with them.
NullSparse == [null |-> TRUE, raw_terms |-> <<>>, nvalues |-> 0]

\* raw term lists used as inputs: none, one term, two terms given out of id order
TermLists == {<<>>, <<1>>} \cup {<<MaxTerm, 1>>}

\* well-formed arguments, and one whose values are fewer than its terms
SparseArgs ==
  {[null |-> FALSE, raw_terms |-> ts, nvalues |-> Len(ts)] : ts \in TermLists}
  \cup {[null |-> FALSE, raw_terms |-> <<1>>, nvalues |-> 0]}

\* SparseDataHolder::make_sparse_point_by_low_level: ret # 0 on a size mismatch,
\* otherwise the datapoint and the term dictionary extended by unseen terms.
make_sparse_point_by_low_level(sp, query_sparse) ==
  IF Len(query_sparse.raw_terms) # query_sparse.nvalues
  THEN [ret |-> 0 - 4, sp |-> sp, dp |-> <<>>]
  ELSE LET r == index_by_terms(sp.term_index_, query_sparse.raw_terms)
       IN [ret |-> 0, sp |-> [sp EXCEPT !.term_index_ = r.term_index_],
           dp |-> SortedSeq(r.ids)]

\* sparse_index_ of the vector store: the CSR dataset and the term dictionary
SparseIndexInit == [ds |-> SparseDatasetInit, term_index_ |-> EmptyMap]

\* ======================================================= BruteforceSearch
\* data_buffer_ holds the rows 0..current_count_-1 (sequence position i+1 is
\* physical index i); a row is the encoded vector followed by the label and
\* the logical offset.  Bytes past current_count_ are never read by the code
\* and are not kept.
BruteforceSearchInit(enable_sparse) ==
  [enable_sparse |-> enable_sparse,
   data_buffer_ |-> <<>>,
   current_count_ |-> 0,
   label_map_ |-> EmptyMap,
   offset_map_ |-> EmptyMap,
   next_logical_offset_ |-> 0,
   sparse_index_ |-> SparseIndexInit]

rows(bf) == SparseDataset_size(bf.sparse_index_.ds)

\* add_point, new label: the sparse side gets the datapoint, or an empty row
append_for_new_NoEmptyRow(ds, has_dp, dp) ==
  IF has_dp THEN SparseDataset_append(ds, dp) ELSE ds

append_for_new(ds, has_dp, dp) ==
  SparseDataset_append(ds, IF has_dp THEN dp ELSE <<>>)

\* remove_point: the moved row's label_map_ entry is pointed at its new index
remap_moved_label_Stale(lm, label_moved, idx_to_remove) == lm

remap_moved_label(lm, label_moved, idx_to_remove) ==
  MapPut(lm, label_moved, idx_to_remove)

\* remove_point: the freed slot after the memcpy of the whole last element
\* (vector, label and logical offset), here with the slot's old offset kept
moved_row_KeepsSlotOffset(last, removed) == [last EXCEPT !.off = removed.off]

moved_row(last, removed) == last

\* the buffer with row `index` (0-based) set to r; index = length appends
WriteRow(buf, index, r) ==
  IF index = Len(buf) THEN Append(buf, r) ELSE [buf EXCEPT ![index + 1] = r]

add_point(bf, vector, label, sparse_data) ==
  LET conv == IF bf.enable_sparse /\ ~sparse_data.null
              THEN make_sparse_point_by_low_level(bf.sparse_index_, sparse_data)
              ELSE [ret |-> 0, sp |-> bf.sparse_index_, dp |-> <<>>]
      has_dp == bf.enable_sparse /\ ~sparse_data.null
      bf1 == [bf EXCEPT !.sparse_index_ = conv.sp]
  IN IF conv.ret # 0
     THEN [bf |-> bf, threw |-> TRUE]        \* "Sparse data conversion failed"
     ELSE IF label \in DOMAIN bf1.label_map_
     THEN LET index == bf1.label_map_[label]
              upd == IF has_dp
                     THEN SparseDataset_update(bf1.sparse_index_.ds, index, conv.dp)
                     ELSE [ds |-> bf1.sparse_index_.ds, threw |-> FALSE]
          IN IF upd.threw
             THEN [bf |-> bf1, threw |-> TRUE]
             ELSE [bf |-> [bf1 EXCEPT
                             !.sparse_index_.ds = upd.ds,
                             !.data_buffer_ =
                                WriteRow(@, index,
                                         [@[index + 1] EXCEPT !.vec = vector,
                                                              !.label = label])],
                   threw |-> FALSE]
     ELSE IF bf1.enable_sparse /\ bf1.current_count_ # rows(bf1)
     THEN [bf |-> bf1, threw |-> TRUE]       \* "Sparse/Dense index inconsistency"
     ELSE LET index == bf1.current_count_
              logical_offset == bf1.next_logical_offset_
              ds1 == IF bf1.enable_sparse
                     THEN append_for_new(bf1.sparse_index_.ds, has_dp, conv.dp)
                     ELSE bf1.sparse_index_.ds
          IN [bf |-> [bf1 EXCEPT
                        !.sparse_index_.ds = ds1,
                        !.label_map_ = MapPut(@, label, index),
                        !.next_logical_offset_ = @ + 1,
                        !.offset_map_ = MapPut(@, logical_offset, index),
                        !.data_buffer_ =
                           WriteRow(@, index, [vec |-> vector, label |-> label,
                                               off |-> logical_offset]),
                        !.current_count_ = @ + 1],
              threw |-> FALSE]

remove_point(bf, label) ==
  IF label \notin DOMAIN bf.label_map_ THEN [bf |-> bf, threw |-> FALSE]
  ELSE
    LET idx_to_remove == bf.label_map_[label]
        idx_last == bf.current_count_ - 1
        removed == bf.data_buffer_[idx_to_remove + 1]
        offset_to_remove == removed.off
        lm1 == MapErase(bf.label_map_, label)
        om1 == MapErase(bf.offset_map_, offset_to_remove)
        swap == bf.current_count_ > 0 /\ idx_to_remove # idx_last
        dest == moved_row(bf.data_buffer_[idx_last + 1], removed)
        buf1 == IF swap THEN [bf.data_buffer_ EXCEPT ![idx_to_remove + 1] = dest]
                ELSE bf.data_buffer_
        lm2 == IF swap THEN remap_moved_label(lm1, dest.label, idx_to_remove) ELSE lm1
        om2 == IF swap THEN MapPut(om1, dest.off, idx_to_remove) ELSE om1
        bf2 == [bf EXCEPT !.label_map_ = lm2, !.offset_map_ = om2,
                          !.data_buffer_ = buf1]
        last_row == SparseDataset_get_row(bf.sparse_index_.ds, idx_last)
        upd == IF swap /\ bf.enable_sparse /\ ~last_row.threw
               THEN SparseDataset_update(bf.sparse_index_.ds, idx_to_remove,
                                         last_row.row)
               ELSE [ds |-> bf.sparse_index_.ds, threw |-> FALSE]
    IN IF swap /\ bf.enable_sparse /\ (last_row.threw \/ upd.threw)
       THEN [bf |-> bf2, threw |-> TRUE]     \* "get row out of bounds"
       ELSE [bf |-> [bf2 EXCEPT
                       !.sparse_index_.ds =
                          IF bf.enable_sparse THEN SparseDataset_pop_back(upd.ds)
                          ELSE @,
                       !.data_buffer_ = SubSeq(buf1, 1, bf.current_count_ - 1),
                       !.current_count_ = @ - 1],
             threw |-> FALSE]

\* -1 when the label is absent
get_offset_by_label(bf, label) ==
  IF label \in DOMAIN bf.label_map_
  THEN bf.data_buffer_[bf.label_map_[label] + 1].off
  ELSE 0 - 1

\* the code returns uint64_t(-1) when the offset is absent; NoLabel stands for it
NoLabel == 0 - 1

get_label_by_offset(bf, offset) ==
  IF offset \in DOMAIN bf.offset_map_
  THEN bf.data_buffer_[bf.offset_map_[offset] + 1].label
  ELSE NoLabel

\* ------------------------------------------------------------ search_knn
\* score of one row: L2 space over one float32 coordinate, reversed
\* (reverse_query_score_), dense part
compute_score(query, row) == 1 - (row.vec - query) * (row.vec - query)

\* std::greater<std::pair<float, uint64_t>>: the heap top is the least pair
PairLess(a, b) == a[1] < b[1] \/ (a[1] = b[1] /\ a[2] < b[2])

pq_top(pq) == CHOOSE p \in pq : \A q \in pq : p = q \/ PairLess(p, q)

\* a heap that is filled up to k and never replaces its top afterwards
pq_offer_NoReplace(pq, k, dist, label) ==
  IF Cardinality(pq) < k THEN pq \cup {<<dist, label>>} ELSE pq

\* one candidate offered to the heap of capacity k
pq_offer(pq, k, dist, label) ==
  IF Cardinality(pq) < k THEN pq \cup {<<dist, label>>}
  ELSE IF dist > pq_top(pq)[1] THEN (pq \ {pq_top(pq)}) \cup {<<dist, label>>}
  ELSE pq

\* the scan: idxs is the sequence of physical indices visited, in order
RECURSIVE knn_scan(_, _, _, _, _)
knn_scan(bf, query, k, idxs, pq) ==
  IF idxs = <<>> THEN pq
  ELSE LET row == bf.data_buffer_[Head(idxs) + 1]
       IN knn_scan(bf, query, k, Tail(idxs),
                   pq_offer(pq, k, compute_score(query, row), row.label))

\* the heap flushed into descending order
RECURSIVE pq_flush(_)
pq_flush(pq) ==
  IF pq = {} THEN <<>>
  ELSE pq_flush(pq \ {pq_top(pq)}) \o <<pq_top(pq)>>

\* physical indices of the live rows whose offset is in the filter, visited
\* in ascending offset order; offsets missing from offset_map_ are skipped
RECURSIVE filter_idxs(_, _)
filter_idxs(bf, offsets) ==
  IF offsets = <<>> THEN <<>>
  ELSE (IF Head(offsets) \in DOMAIN bf.offset_map_
        THEN <<bf.offset_map_[Head(offsets)]>> ELSE <<>>)
       \o filter_idxs(bf, Tail(offsets))

\* search_knn with no sparse query: the labels and scores written to the
\* (initially empty) output vectors.  query.null stands for a null query_data.
search_knn(bf, query, k, filter_bitmap) ==
  IF query.null \/ k = 0 \/ bf.current_count_ = 0
     \/ (~filter_bitmap.null /\ filter_bitmap.bits = {})
  THEN [labels |-> <<>>, scores |-> <<>>]
  ELSE LET idxs == IF filter_bitmap.null
                   THEN [i \in 1..bf.current_count_ |-> i - 1]
                   ELSE filter_idxs(bf, SortedSeq(filter_bitmap.bits))
           out == pq_flush(knn_scan(bf, query.vec, k, idxs, {}))
       IN [labels |-> [i \in 1..Len(out) |-> out[i][2]],
           scores |-> [i \in 1..Len(out) |-> out[i][1]]]

\* rebuild_maps: scan rows 0..current_count_-1 in order, later rows overwrite
RECURSIVE RebuildScan(_, _, _, _)
RebuildScan(buf, i, lm, om) ==
  IF i > Len(buf) THEN [label_map_ |-> lm, offset_map_ |-> om]
  ELSE RebuildScan(buf, i + 1, MapPut(lm, buf[i].label, i - 1),
                   MapPut(om, buf[i].off, i - 1))

MaxOff(buf) ==
  IF buf = <<>> THEN 0
  ELSE CHOOSE m \in {buf[i].off : i \in 1..Len(buf)} :
         \A i \in 1..Len(buf) : buf[i].off <= m

rebuild_maps(bf) ==
  LET maps == RebuildScan(bf.data_buffer_, 1, EmptyMap, EmptyMap)
      max_offset == MaxOff(bf.data_buffer_)
  IN [bf EXCEPT !.label_map_ = maps.label_map_,
                !.offset_map_ = maps.offset_map_,
                !.next_logical_offset_ =
                   IF bf.current_count_ > 0 /\ @ <= max_offset
                   THEN max_offset + 1 ELSE @]

\* save: the file holds the live count, the buffer and next_logical_offset_,
\* and (sparse head) the term dictionary and the rows
save(bf) ==
  [current_count_ |-> bf.current_count_,
   data_buffer_ |-> bf.data_buffer_,
   next_logical_offset_ |-> bf.next_logical_offset_,
   sparse_index_ |-> bf.sparse_index_]

\* load as it would be if the stored next_logical_offset_ were not read back
load_NoHighWater(enable_sparse, file) ==
  rebuild_maps([BruteforceSearchInit(enable_sparse) EXCEPT
                  !.current_count_ = file.current_count_,
                  !.data_buffer_ = file.data_buffer_,
                  !.sparse_index_ = IF enable_sparse THEN file.sparse_index_ ELSE @])

\* load into a freshly constructed store (a file written by save always
\* carries next_logical_offset_)
load(enable_sparse, file) ==
  rebuild_maps([BruteforceSearchInit(enable_sparse) EXCEPT
                  !.current_count_ = file.current_count_,
                  !.data_buffer_ = file.data_buffer_,
                  !.next_logical_offset_ = file.next_logical_offset_,
                  !.sparse_index_ = IF enable_sparse THEN file.sparse_index_ ELSE @])

\* ================================================================= Bitmap
\* A stored Bitmap keeps its ids in set_ until it is converted to roaring_.
kSetThreshold == 32

BitmapInit ==
  [set_ |-> {}, roaring_ |-> {}, is_roaring_ |-> FALSE,
   nbit_cache_ |-> 0, has_nbit_cache_ |-> FALSE]

Bitmap_to_roaring(bm) ==
  IF bm.is_roaring_ THEN bm
  ELSE [bm EXCEPT !.set_ = {}, !.roaring_ = bm.roaring_ \cup bm.set_,
                  !.is_roaring_ = TRUE]

Bitmap_Set(bm, id) ==
  IF bm.is_roaring_
  THEN [bm EXCEPT !.roaring_ = @ \cup {id}, !.has_nbit_cache_ = FALSE]
  ELSE LET b1 == [bm EXCEPT !.set_ = @ \cup {id}, !.has_nbit_cache_ = FALSE]
       IN IF Cardinality(b1.set_) > kSetThreshold THEN Bitmap_to_roaring(b1) ELSE b1

Bitmap_Unset(bm, id) ==
  IF bm.is_roaring_
  THEN [bm EXCEPT !.roaring_ = @ \ {id}, !.has_nbit_cache_ = FALSE]
  ELSE [bm EXCEPT !.set_ = @ \ {id}, !.has_nbit_cache_ = FALSE]

\* the ids held, in either representation
Bitmap_ids(bm) == IF bm.is_roaring_ THEN bm.roaring_ ELSE bm.set_

\* A temporary bitmap handed around by a query (BitmapPtr): null, or its ids.
NullBitmap == [null |-> TRUE, bits |-> {}]

Temp(bits) == [null |-> FALSE, bits |-> bits]

\* ============================================================= std::string
\* The strings that occur as keys, prefixes and path segments, each with its
\* characters; a string operation works on the characters and names the
\* result.
Chars(str) ==
  CASE str = "" -> <<>>
    [] str = "/" -> <<"/">>
    [] str = "a" -> <<"a">>
    [] str = "ab" -> <<"a", "b">>
    [] str = "z" -> <<"z">>
    [] str = "x" -> <<"x">>
    [] str = "y" -> <<"y">>
    [] str = "/x" -> <<"/", "x">>
    [] str = "/x/" -> <<"/", "x", "/">>
    [] str = "/y" -> <<"/", "y">>
    [] str = "/x/y" -> <<"/", "x", "/", "y">>
    [] str = "/a" -> <<"/", "a">>
    [] str = "/ab" -> <<"/", "a", "b">>
    [] str = "/z" -> <<"/", "z">>

Strings == {"", "/", "a", "ab", "z", "x", "y", "/x", "/x/", "/y", "/x/y",
            "/a", "/ab", "/z"}

Str(chars) == CHOOSE str \in Strings : Chars(str) = chars

\* key.compare(0, prefix.size(), prefix) == 0 on a key at least as long
StartsWith(key, prefix) ==
  /\ Len(Chars(key)) >= Len(Chars(prefix))
  /\ SubSeq(Chars(key), 1, Len(Chars(prefix))) = Chars(prefix)

\* the text with a '/' put in front unless it is empty or has one
normalize_path_key(key) ==
  IF key = "" \/ Head(Chars(key)) = "/" THEN key
  ELSE Str(<<"/">> \o Chars(key))

\* ================================================================ DirIndex
\* The trie is kept as the set of its leaf nodes, a node being the sequence
\* of segments on the way from the root; its nodes are the root and every
\* prefix of a leaf, which is all that add_key creates.
DirIndexInit == [null |-> FALSE, leaves |-> {}]

NullDirIndex == [null |-> TRUE, leaves |-> {}]

\* std::getline(ss, seg, '/') over the characters, empty segments dropped
RECURSIVE SplitChars(_, _)
SplitChars(chars, seg) ==
  IF chars = <<>> THEN IF seg = <<>> THEN <<>> ELSE <<Str(seg)>>
  ELSE IF Head(chars) = "/"
  THEN (IF seg = <<>> THEN <<>> ELSE <<Str(seg)>>) \o SplitChars(Tail(chars), <<>>)
  ELSE SplitChars(Tail(chars), Append(seg, Head(chars)))

split_path(path) ==
  IF path = "" \/ path = "/" THEN <<>>
  ELSE IF Head(Chars(path)) = "/" THEN SplitChars(Tail(Chars(path)), <<>>)
  ELSE SplitChars(Chars(path), <<>>)

add_key(dip, key) == [dip EXCEPT !.leaves = @ \cup {split_path(key)}]

IsPrefixOf(p, s) == Len(p) <= Len(s) /\ SubSeq(s, 1, Len(p)) = p

\* find_node: the node of the path, or none
find_node(dip, path) ==
  LET segments == split_path(path)
  IN IF segments = <<>> \/ \E leaf \in dip.leaves : IsPrefixOf(segments, leaf)
     THEN [null |-> FALSE, node |-> segments]
     ELSE [null |-> TRUE, node |-> <<>>]

\* path_buffer after the segments of a walk down from the start node
RECURSIVE PathBuffer(_, _)
PathBuffer(path_buffer, segments) ==
  IF segments = <<>> THEN path_buffer
  ELSE PathBuffer(IF path_buffer = "" \/ path_buffer = "/"
                  THEN Str(<<"/">> \o Chars(Head(segments)))
                  ELSE Str(Chars(path_buffer) \o <<"/">> \o Chars(Head(segments))),
                  Tail(segments))

\* path_buffer at the start: a '/' in front, trailing '/' removed
RECURSIVE PopSlashes(_)
PopSlashes(chars) ==
  IF Len(chars) > 1 /\ chars[Len(chars)] = "/"
  THEN PopSlashes(SubSeq(chars, 1, Len(chars) - 1))
  ELSE chars

StartBuffer(path_prefix) ==
  IF path_prefix = "" THEN ""
  ELSE IF Head(Chars(path_prefix)) # "/"
  THEN Str(PopSlashes(<<"/">> \o Chars(path_prefix)))
  ELSE Str(PopSlashes(Chars(path_prefix)))

\* get_merged_bitmap with collect_bitmaps_recursive_optimized: the bitmap keys
\* of the leaves at or below the start node, no deeper than depth below it
get_merged_bitmap(dip, path_prefix, depth) ==
  LET start_node == find_node(dip, path_prefix)
      key_of(leaf) ==
        LET path_buffer ==
              PathBuffer(StartBuffer(path_prefix),
                         SubSeq(leaf, Len(start_node.node) + 1, Len(leaf)))
        IN IF path_buffer = "" \/ path_buffer = "/" THEN "/" ELSE path_buffer
  IN IF start_node.null THEN {}
     ELSE {key_of(leaf) :
             leaf \in {l \in dip.leaves :
                         /\ IsPrefixOf(start_node.node, l)
                         /\ depth = 0 - 1 \/ Len(l) - Len(start_node.node) <= depth}}

\* =============================================================== RangedMap
\* A field value is a double; the values written are 0..MaxValue.
Values == 0..MaxValue

\* std::numeric_limits<double>::quiet_NaN(), the mark of an offset without a
\* value in offset_to_value_; it is only ever tested with isnan
NaN == 0 - 1

isnan(v) == v = NaN

RangedMapInit == [offset_to_value_ |-> <<>>, slots_ |-> <<>>]

\* vector::insert at a 0-based position
InsertAt(vec, idx, v) ==
  [i \in 1..(Len(vec) + 1) |->
     IF i <= idx THEN vec[i] ELSE IF i = idx + 1 THEN v ELSE vec[i - 1]]

\* vector::erase at a 0-based position
EraseAt(vec, idx) ==
  [i \in 1..(Len(vec) - 1) |-> IF i <= idx THEN vec[i] ELSE vec[i + 1]]

\* std::upper_bound / std::lower_bound as the library computes them: the
\* halving search, which gives the usual answer only on a sorted vector
RECURSIVE upper_bound_loop(_, _, _, _)
upper_bound_loop(vec, val, first, len) ==
  IF len <= 0 THEN first
  ELSE LET half == len \div 2
           mid == first + half
       IN IF val < vec[mid + 1]
          THEN upper_bound_loop(vec, val, first, half)
          ELSE upper_bound_loop(vec, val, mid + 1, len - half - 1)

upper_bound(vec, val) == upper_bound_loop(vec, val, 0, Len(vec))

RECURSIVE lower_bound_loop(_, _, _, _)
lower_bound_loop(vec, val, first, len) ==
  IF len <= 0 THEN first
  ELSE LET half == len \div 2
           mid == first + half
       IN IF vec[mid + 1] < val
          THEN lower_bound_loop(vec, val, mid + 1, len - half - 1)
          ELSE lower_bound_loop(vec, val, first, half)

lower_bound(vec, val) == lower_bound_loop(vec, val, 0, Len(vec))

Bitmap_SetMany(bm, ids) ==
  IF ids = {} THEN [bm EXCEPT !.has_nbit_cache_ = FALSE]
  ELSE [Bitmap_to_roaring(bm) EXCEPT !.roaring_ = @ \cup ids,
                                     !.has_nbit_cache_ = FALSE]

\* ----------------------------------------------------------------- SlotMeta
\* the split with the bitmap of the slot left as it was
split_half_to_new_slot_NoClear(slot, new_slot) ==
  IF Len(slot.value_vec) < 2
  THEN [slot |-> slot, new_slot |-> new_slot, ret |-> FALSE]
  ELSE LET split_idx == Len(slot.value_vec) \div 2
           new_value_vec == SubSeq(slot.value_vec, split_idx + 1, Len(slot.value_vec))
           new_offset_vec == SubSeq(slot.offset_vec, split_idx + 1, Len(slot.offset_vec))
           value_vec == SubSeq(slot.value_vec, 1, split_idx)
           offset_vec == SubSeq(slot.offset_vec, 1, split_idx)
       IN [slot |-> [left |-> slot.left,
                     right |-> value_vec[Len(value_vec)],
                     bitmap |-> slot.bitmap,
                     value_vec |-> value_vec,
                     offset_vec |-> offset_vec],
           new_slot |-> [left |-> new_value_vec[1],
                         right |-> new_value_vec[Len(new_value_vec)],
                         bitmap |-> Bitmap_SetMany(new_slot.bitmap,
                                                   Range(new_offset_vec)),
                         value_vec |-> new_value_vec,
                         offset_vec |-> new_offset_vec],
           ret |-> TRUE]

split_half_to_new_slot_StaleRight(slot, new_slot) ==
  IF Len(slot.value_vec) < 2
  THEN [slot |-> slot, new_slot |-> new_slot, ret |-> FALSE]
  ELSE LET split_idx == Len(slot.value_vec) \div 2
           new_value_vec == SubSeq(slot.value_vec, split_idx + 1, Len(slot.value_vec))
           new_offset_vec == SubSeq(slot.offset_vec, split_idx + 1, Len(slot.offset_vec))
           value_vec == SubSeq(slot.value_vec, 1, split_idx)
           offset_vec == SubSeq(slot.offset_vec, 1, split_idx)
       IN [slot |-> [left |-> slot.left,
                     right |-> slot.right,
                     bitmap |-> Bitmap_SetMany(BitmapInit, Range(offset_vec)),
                     value_vec |-> value_vec,
                     offset_vec |-> offset_vec],
           new_slot |-> [left |-> new_value_vec[1],
                         right |-> new_value_vec[Len(new_value_vec)],
                         bitmap |-> Bitmap_SetMany(new_slot.bitmap,
                                                   Range(new_offset_vec)),
                         value_vec |-> new_value_vec,
                         offset_vec |-> new_offset_vec],
           ret |-> TRUE]

\* split_half_to_new_slot: the slot after the call, new_slot after the call
\* and the return value
split_half_to_new_slot(slot, new_slot) ==
  IF Len(slot.value_vec) < 2
  THEN [slot |-> slot, new_slot |-> new_slot, ret |-> FALSE]
  ELSE LET split_idx == Len(slot.value_vec) \div 2
           new_value_vec == SubSeq(slot.value_vec, split_idx + 1, Len(slot.value_vec))
           new_offset_vec == SubSeq(slot.offset_vec, split_idx + 1, Len(slot.offset_vec))
           value_vec == SubSeq(slot.value_vec, 1, split_idx)
           offset_vec == SubSeq(slot.offset_vec, 1, split_idx)
       IN [slot |-> [left |-> slot.left,
                     right |-> value_vec[Len(value_vec)],
                     bitmap |-> Bitmap_SetMany(BitmapInit, Range(offset_vec)),
                     value_vec |-> value_vec,
                     offset_vec |-> offset_vec],
           new_slot |-> [left |-> new_value_vec[1],
                         right |-> new_value_vec[Len(new_value_vec)],
                         bitmap |-> Bitmap_SetMany(new_slot.bitmap,
                                                   Range(new_offset_vec)),
                         value_vec |-> new_value_vec,
                         offset_vec |-> new_offset_vec],
           ret |-> TRUE]

get_right_border(slot, lower_than, include_le) ==
  IF include_le THEN upper_bound(slot.value_vec, lower_than)
  ELSE lower_bound(slot.value_vec, lower_than)

get_left_border(slot, greater_than, include_ge) ==
  IF include_ge THEN lower_bound(slot.value_vec, greater_than)
  ELSE upper_bound(slot.value_vec, greater_than)

\* the offsets at the 0-based positions from..(to - 1) of offset_vec
OffsetsBetween(slot, from, to) ==
  {slot.offset_vec[i + 1] : i \in {j \in 0..(Len(slot.offset_vec) - 1) :
                                     from <= j /\ j < to}}

\* the three getters: the offsets set in the target and the count returned.
\* The counts are uint32_t, and r_border - l_border wraps around when the
\* borders cross; the count is kept here as the signed difference, which is
\* 0 exactly when the uint32_t is.
get_lower_than_data(slot, lower_than, include_le) ==
  LET bound_idx == get_right_border(slot, lower_than, include_le)
  IN [bits |-> OffsetsBetween(slot, 0, bound_idx), cnt |-> bound_idx]

get_greater_than_data(slot, greater_than, include_ge) ==
  LET bound_idx == get_left_border(slot, greater_than, include_ge)
  IN [bits |-> OffsetsBetween(slot, bound_idx, Len(slot.offset_vec)),
      cnt |-> Len(slot.offset_vec) - bound_idx]

get_range_data(slot, lower_than, include_le, greater_than, include_ge) ==
  LET l_border == get_left_border(slot, greater_than, include_ge)
      r_border == get_right_border(slot, lower_than, include_le)
  IN [bits |-> OffsetsBetween(slot, l_border, r_border),
      cnt |-> r_border - l_border]

\* ------------------------------------------------------------ slot lookup
RECURSIVE slot_lower_bound_loop(_, _, _, _)
slot_lower_bound_loop(slots, val, l, r) ==
  IF l >= r THEN l
  ELSE LET mid == l + (r - l) \div 2
           slot == slots[mid + 1]
       IN IF val > slot.right THEN slot_lower_bound_loop(slots, val, mid + 1, r)
          ELSE IF val <= slot.left THEN slot_lower_bound_loop(slots, val, l, mid)
          ELSE mid

slot_lower_bound_idx(slots, val) == slot_lower_bound_loop(slots, val, 0, Len(slots))

RECURSIVE slot_upper_bound_loop(_, _, _, _)
slot_upper_bound_loop(slots, val, l, r) ==
  IF l >= r THEN l
  ELSE LET mid == l + (r - l) \div 2
           slot == slots[mid + 1]
       IN IF val >= slot.right THEN slot_upper_bound_loop(slots, val, mid + 1, r)
          ELSE IF val < slot.left THEN slot_upper_bound_loop(slots, val, l, mid)
          ELSE mid

slot_upper_bound_idx(slots, val) == slot_upper_bound_loop(slots, val, 0, Len(slots))

\* called on a non-empty slots_ only
find_right_slot_index(slots, lower_than, include_le) ==
  LET slot_idx == Min(IF include_le THEN slot_upper_bound_idx(slots, lower_than)
                      ELSE slot_lower_bound_idx(slots, lower_than),
                      Len(slots) - 1)
  IN IF include_le
     THEN IF lower_than < slots[slot_idx + 1].left THEN slot_idx - 1 ELSE slot_idx
     ELSE IF lower_than <= slots[slot_idx + 1].left THEN slot_idx - 1 ELSE slot_idx

find_left_slot_index_Inclusive(slots, greater_than, include_ge) ==
  slot_lower_bound_idx(slots, greater_than)

find_left_slot_index(slots, greater_than, include_ge) ==
  IF include_ge THEN slot_lower_bound_idx(slots, greater_than)
  ELSE slot_upper_bound_idx(slots, greater_than)

\* ------------------------------------------------------ add_offset_and_score
\* the map after the call and the return code
\* an add that does not look at the value the offset has
add_offset_and_score_NoCheck(rm, offset, value) ==
  [rm |-> [rm EXCEPT !.offset_to_value_ =
                        [i \in 1..Max(Len(@), offset + 1) |->
                           IF i = offset + 1 THEN value
                           ELSE IF i <= Len(@) THEN @[i] ELSE NaN]],
   ret |-> 0]

add_offset_and_score(rm, offset, value) ==
  IF offset < Len(rm.offset_to_value_) /\ ~isnan(rm.offset_to_value_[offset + 1])
  THEN [rm |-> rm, ret |-> 0 - 1]
  ELSE LET resized == [i \in 1..Max(Len(rm.offset_to_value_), offset + 1) |->
                         IF i <= Len(rm.offset_to_value_)
                         THEN rm.offset_to_value_[i] ELSE NaN]
           offset_to_value == [resized EXCEPT ![offset + 1] = value]
           found == find_right_slot_index(rm.slots_, value, TRUE)
           slot_idx == IF found = 0 - 1 THEN 0 ELSE found
           add_slot == rm.slots_[slot_idx + 1]
           vec_idx == upper_bound(add_slot.value_vec, value)
           added == [left |-> Min(value, add_slot.left),
                     right |-> Max(value, add_slot.right),
                     bitmap |-> Bitmap_Set(add_slot.bitmap, offset),
                     value_vec |-> InsertAt(add_slot.value_vec, vec_idx, value),
                     offset_vec |-> InsertAt(add_slot.offset_vec, vec_idx, offset)]
           new_slot == [left |-> 0, right |-> 0, bitmap |-> BitmapInit,
                        value_vec |-> <<>>, offset_vec |-> <<>>]
           halves == split_half_to_new_slot(added, new_slot)
       IN IF rm.slots_ = <<>>
          THEN [rm |-> [offset_to_value_ |-> offset_to_value,
                        slots_ |-> <<[left |-> value, right |-> value,
                                      bitmap |-> Bitmap_Set(BitmapInit, offset),
                                      value_vec |-> <<value>>,
                                      offset_vec |-> <<offset>>]>>],
                ret |-> 0]
          ELSE IF Len(added.value_vec) > kRangedMapSlotSize * 2
          THEN [rm |-> [offset_to_value_ |-> offset_to_value,
                        slots_ |-> SubSeq(rm.slots_, 1, slot_idx)
                                   \o <<halves.slot, halves.new_slot>>
                                   \o SubSeq(rm.slots_, slot_idx + 2, Len(rm.slots_))],
                ret |-> 0]
          ELSE [rm |-> [offset_to_value_ |-> offset_to_value,
                        slots_ |-> [rm.slots_ EXCEPT ![slot_idx + 1] = added]],
                ret |-> 0]

\* ------------------------------------------------------------ delete_offset
\* the first slot from slot_idx on whose bitmap holds the offset, or size()
RECURSIVE SlotHolding(_, _, _)
SlotHolding(slots, slot_idx, offset) ==
  IF slot_idx < Len(slots) /\ offset \notin Bitmap_ids(slots[slot_idx + 1].bitmap)
  THEN SlotHolding(slots, slot_idx + 1, offset)
  ELSE slot_idx

\* the first position from pos on at which offset_vec holds the offset, or end()
RECURSIVE OffsetAt(_, _, _)
OffsetAt(offset_vec, pos, offset) ==
  IF pos < Len(offset_vec) /\ offset_vec[pos + 1] # offset
  THEN OffsetAt(offset_vec, pos + 1, offset)
  ELSE pos

delete_offset(rm, offset) ==
  IF rm.slots_ = <<>> THEN [rm |-> rm, ret |-> 0 - 1]
  ELSE IF offset >= Len(rm.offset_to_value_) \/ isnan(rm.offset_to_value_[offset + 1])
  THEN [rm |-> rm, ret |-> 0 - 1]
  ELSE LET value == rm.offset_to_value_[offset + 1]
           offset_to_value == [rm.offset_to_value_ EXCEPT ![offset + 1] = NaN]
           slot_idx == SlotHolding(rm.slots_,
                                   find_left_slot_index(rm.slots_, value, TRUE), offset)
           delete_slot == rm.slots_[slot_idx + 1]
           unset == [delete_slot EXCEPT !.bitmap = Bitmap_Unset(@, offset)]
           first == lower_bound(delete_slot.value_vec, value)
           vec_idx == OffsetAt(delete_slot.offset_vec, first, offset)
           value_vec == EraseAt(delete_slot.value_vec, vec_idx)
           erased == [left |-> value_vec[1], right |-> value_vec[Len(value_vec)],
                      bitmap |-> unset.bitmap, value_vec |-> value_vec,
                      offset_vec |-> EraseAt(delete_slot.offset_vec, vec_idx)]
       IN IF slot_idx >= Len(rm.slots_)
          THEN [rm |-> [offset_to_value_ |-> offset_to_value, slots_ |-> rm.slots_],
                ret |-> 0 - 1]
          ELSE IF vec_idx = Len(delete_slot.offset_vec)
          THEN [rm |-> [offset_to_value_ |-> offset_to_value,
                        slots_ |-> [rm.slots_ EXCEPT ![slot_idx + 1] = unset]],
                ret |-> 0 - 1]
          ELSE IF value_vec # <<>>
          THEN [rm |-> [offset_to_value_ |-> offset_to_value,
                        slots_ |-> [rm.slots_ EXCEPT ![slot_idx + 1] = erased]],
                ret |-> 0]
          ELSE [rm |-> [offset_to_value_ |-> offset_to_value,
                        slots_ |-> EraseAt(rm.slots_, slot_idx)],
                ret |-> 0]

\* ------------------------------------------ get_range_bitmap_with_slot_data
\* what whole slots put into the result: their offsets and their sizes
WholeSlots(slots, idxs) ==
  [bits |-> UNION {Bitmap_ids(slots[i + 1].bitmap) : i \in idxs},
   cnt |-> LET RECURSIVE Sum(_)
               Sum(S) == IF S = {} THEN 0
                         ELSE LET i == CHOOSE x \in S : TRUE
                              IN Len(slots[i + 1].offset_vec) + Sum(S \ {i})
           IN Sum(idxs)]

NoData == [bits |-> {}, cnt |-> 0]

get_range_bitmap_with_slot_data(rm, range_out, lower_than0, include_le0, greater_than0, include_ge0) ==
  LET swap == range_out /\ lower_than0 < greater_than0
      lower_than == IF swap THEN greater_than0 ELSE lower_than0
      greater_than == IF swap THEN lower_than0 ELSE greater_than0
      include_le == IF swap THEN include_ge0 ELSE include_le0
      include_ge == IF swap THEN include_le0 ELSE include_ge0
      size == Len(rm.slots_)
      r_index == find_right_slot_index(rm.slots_, lower_than, include_le)
      l_index == find_left_slot_index(rm.slots_, greater_than, include_ge)
      inner == WholeSlots(rm.slots_, {i \in 0..(size - 1) : l_index < i /\ i < r_index})
      edges == IF r_index # 0 - 1 /\ l_index # size
               THEN IF l_index < r_index
                    THEN <<get_lower_than_data(rm.slots_[r_index + 1], lower_than,
                                               include_le),
                           get_greater_than_data(rm.slots_[l_index + 1], greater_than,
                                                 include_ge)>>
                    ELSE IF l_index = r_index
                    THEN <<get_range_data(rm.slots_[r_index + 1], lower_than,
                                          include_le, greater_than, include_ge)>>
                    ELSE <<>>
               ELSE <<>>
      below == WholeSlots(rm.slots_, {i \in 0..(size - 1) : i < l_index})
      low_edge == IF l_index # size /\ l_index # 0 - 1
                  THEN get_lower_than_data(rm.slots_[l_index + 1], greater_than,
                                           ~include_ge)
                  ELSE NoData
      above == WholeSlots(rm.slots_, {i \in 0..(size - 1) : i > r_index})
      high_edge == IF r_index # 0 - 1 /\ r_index # size
                   THEN get_greater_than_data(rm.slots_[r_index + 1], lower_than,
                                              ~include_le)
                   ELSE NoData
      parts == IF ~range_out THEN <<inner>> \o edges
               ELSE <<below, low_edge, above, high_edge>>
      bits == UNION {parts[i].bits : i \in DOMAIN parts}
      cnt == LET RECURSIVE Sum(_)
                 Sum(i) == IF i = 0 THEN 0 ELSE Sum(i - 1) + parts[i].cnt
             IN Sum(Len(parts))
  IN IF rm.slots_ = <<>> THEN NullBitmap
     ELSE IF cnt = 0 THEN NullBitmap
     ELSE Temp(bits)

\* ======================================================== FieldBitmapGroup
\* BitmapGroupBase::kBitmapGroup...: what a group holds
kBitmapGroupUnknown == 0

kBitmapGroupBitmaps == 1

kBitmapGroupRangedMap == 2

kBitmapGroupBothBitmapsAndRange == 3

kBitmapGroupDir == 4

\* rangedmap_ptr_: null, or the RangedMap it points to
NullRangedMap == [null |-> TRUE, obj |-> RangedMapInit]

NewRangedMap == [null |-> FALSE, obj |-> RangedMapInit]

\* One group per field: bitmap_group_ maps a key to its Bitmap; the
\* constructor makes the RangedMap and the DirIndex the type asks for.
FieldBitmapGroupInit(type_id) ==
  [bitmap_group_ |-> EmptyMap, element_size_ |-> 0, type_id_ |-> type_id,
   rangedmap_ptr_ |-> IF type_id = kBitmapGroupBothBitmapsAndRange
                         \/ type_id = kBitmapGroupRangedMap
                      THEN NewRangedMap ELSE NullRangedMap,
   dir_index_ |-> IF type_id = kBitmapGroupDir THEN DirIndexInit ELSE NullDirIndex]

\* get_editable_bitmap: the group after the call; a key that is not there is
\* inserted with an empty Bitmap
get_editable_bitmap(grp, key) ==
  IF key \in DOMAIN grp.bitmap_group_ THEN grp
  ELSE [grp EXCEPT !.bitmap_group_ = MapPut(@, key, BitmapInit)]

get_editable_rangedmap(grp) ==
  IF grp.rangedmap_ptr_.null THEN [grp EXCEPT !.rangedmap_ptr_ = NewRangedMap]
  ELSE grp

\* for each key in turn: the key is normalised in a path group and, on an
\* add, put into the DirIndex when the group has no bitmap for it yet; then
\* get_editable_bitmap and Set or Unset of the offset
RECURSIVE EditKeys(_, _, _, _)
EditKeys(grp, keys, offset, set) ==
  IF keys = <<>> THEN grp
  ELSE LET norm_key == IF grp.dir_index_.null THEN Head(keys)
                       ELSE normalize_path_key(Head(keys))
           g0 == IF set /\ ~grp.dir_index_.null
                    /\ norm_key \notin DOMAIN grp.bitmap_group_
                 THEN [grp EXCEPT !.dir_index_ = add_key(@, norm_key)]
                 ELSE grp
           g1 == get_editable_bitmap(g0, norm_key)
           g2 == [g1 EXCEPT !.bitmap_group_[norm_key] =
                    IF set THEN Bitmap_Set(@, offset) ELSE Bitmap_Unset(@, offset)]
       IN EditKeys(g2, Tail(keys), offset, set)

\* field_str is given as the sequence of keys it splits into at ';'
FieldBitmapGroup_add_field_data(grp, keys, offset) ==
  [EditKeys(grp, keys, offset, TRUE) EXCEPT !.element_size_ = Max(offset + 1, @)]

FieldBitmapGroup_delete_field_data(grp, keys, offset) ==
  IF offset >= grp.element_size_ THEN grp
  ELSE EditKeys(grp, keys, offset, FALSE)

\* add_field_data(double): a rejected add leaves element_size_ as it was
FieldBitmapGroup_add_field_data_dbl(grp, field_dbl, offset) ==
  LET stored(g, r) ==
        IF r.ret # 0 THEN [g EXCEPT !.rangedmap_ptr_.obj = r.rm]
        ELSE [g EXCEPT !.rangedmap_ptr_.obj = r.rm,
                       !.element_size_ = Max(offset + 1, @)]
      with(g) == stored(g, add_offset_and_score(g.rangedmap_ptr_.obj, offset, field_dbl))
  IN with(get_editable_rangedmap(grp))

\* delete_field_data(double): the value handed in is not looked at
FieldBitmapGroup_delete_field_data_dbl(grp, field_dbl, offset) ==
  LET with(g) == [g EXCEPT !.rangedmap_ptr_.obj = delete_offset(@, offset).rm]
  IN IF offset >= grp.element_size_ THEN grp
     ELSE with(get_editable_rangedmap(grp))

\* ===================================================== FieldBitmapGroupSet
\* ScalarIndex::get_type_id
get_type_id(field_type) ==
  IF field_type = "int64" THEN kBitmapGroupBothBitmapsAndRange
  ELSE IF field_type = "float32" THEN kBitmapGroupRangedMap
  ELSE IF field_type = "string" \/ field_type = "bool" THEN kBitmapGroupBitmaps
  ELSE IF field_type = "path" THEN kBitmapGroupDir
  ELSE kBitmapGroupUnknown

\* the ScalarIndex constructor without a directory: one group per item of
\* the meta (field name -> field type) whose type is known, handed to
\* add_field_group
FieldBitmapGroupSetInit(items) ==
  [field_bitmap_groups_map_ |->
     [f \in {g \in DOMAIN items : get_type_id(items[g]) # kBitmapGroupUnknown} |->
        FieldBitmapGroupInit(get_type_id(items[f]))],
   path_field_names_ |-> {f \in DOMAIN items : get_type_id(items[f]) = kBitmapGroupDir},
   element_size_ |-> 0]

\* a FieldsDict is its str_kv_map_ and its dbl_kv_map_: field name -> value
FieldBitmapGroupSet_add_field_data(fs, str_kv_map, offset) ==
  [fs EXCEPT
     !.field_bitmap_groups_map_ =
        [f \in DOMAIN @ |->
           IF f \in DOMAIN str_kv_map
           THEN FieldBitmapGroup_add_field_data(@[f], str_kv_map[f], offset)
           ELSE @[f]],
     !.element_size_ = Max(@, offset + 1)]

FieldBitmapGroupSet_add_field_data_dbl(fs, double_kv_map, offset) ==
  [fs EXCEPT
     !.field_bitmap_groups_map_ =
        [f \in DOMAIN @ |->
           IF f \in DOMAIN double_kv_map
           THEN FieldBitmapGroup_add_field_data_dbl(@[f], double_kv_map[f], offset)
           ELSE @[f]],
     !.element_size_ = Max(@, offset + 1)]

FieldBitmapGroupSet_delete_field_data(fs, str_kv_map, offset) ==
  IF offset >= fs.element_size_ THEN fs
  ELSE [fs EXCEPT !.field_bitmap_groups_map_ =
          [f \in DOMAIN @ |->
             IF f \in DOMAIN str_kv_map
             THEN FieldBitmapGroup_delete_field_data(@[f], str_kv_map[f], offset)
             ELSE @[f]]]

FieldBitmapGroupSet_delete_field_data_dbl(fs, double_kv_map, offset) ==
  IF offset >= fs.element_size_ THEN fs
  ELSE [fs EXCEPT !.field_bitmap_groups_map_ =
          [f \in DOMAIN @ |->
             IF f \in DOMAIN double_kv_map
             THEN FieldBitmapGroup_delete_field_data_dbl(@[f], double_kv_map[f], offset)
             ELSE @[f]]]

\* ScalarIndex::add_row_data / delete_row_data on field_sets_
add_row_data(fs, offset, fields, old_fields) ==
  LET f1 == IF DOMAIN old_fields.str_kv_map_ # {}
            THEN FieldBitmapGroupSet_delete_field_data(fs, old_fields.str_kv_map_, offset)
            ELSE fs
      f2 == IF DOMAIN old_fields.dbl_kv_map_ # {}
            THEN FieldBitmapGroupSet_delete_field_data_dbl(f1, old_fields.dbl_kv_map_,
                                                           offset)
            ELSE f1
      f3 == IF DOMAIN fields.str_kv_map_ # {}
            THEN FieldBitmapGroupSet_add_field_data(f2, fields.str_kv_map_, offset)
            ELSE f2
  IN IF DOMAIN fields.dbl_kv_map_ # {}
     THEN FieldBitmapGroupSet_add_field_data_dbl(f3, fields.dbl_kv_map_, offset)
     ELSE f3

delete_row_data(fs, offset, old_fields) ==
  LET f1 == IF DOMAIN old_fields.str_kv_map_ # {}
            THEN FieldBitmapGroupSet_delete_field_data(fs, old_fields.str_kv_map_, offset)
            ELSE fs
  IN IF DOMAIN old_fields.dbl_kv_map_ # {}
     THEN FieldBitmapGroupSet_delete_field_data_dbl(f1, old_fields.dbl_kv_map_, offset)
     ELSE f1

\* ---------------------------------------------------- query-side lookups
\* A lookup returns the field set after the call, the temporary bitmap and
\* the accesses made: <<object, field, key, "r" or "w">>.
MapObj(field) == <<"bitmap_group_", field, "">>

BitmapObj(field, key) == <<"Bitmap", field, key>>

RangedMapObj(field) == <<"RangedMap", field, "">>

DirIndexObj(field) == <<"DirIndex", field, "">>

Rd(obj) == <<obj, "r">>

Wr(obj) == <<obj, "w">>

\* FieldBitmapGroupSet::get_bitmap = get_editable_bitmap(field, key)
FieldBitmapGroupSet_get_bitmap(fs, field, key) ==
  IF field \notin DOMAIN fs.field_bitmap_groups_map_
  THEN [fs |-> fs, bm |-> NullBitmap, acc |-> {}]
  ELSE LET g0 == fs.field_bitmap_groups_map_[field]
           g1 == get_editable_bitmap(g0, key)
       IN [fs |-> [fs EXCEPT !.field_bitmap_groups_map_[field] = g1],
           bm |-> Temp(Bitmap_ids(g1.bitmap_group_[key])),
           acc |-> {Rd(MapObj(field)), Rd(BitmapObj(field, key))}
                   \cup (IF key \in DOMAIN g0.bitmap_group_ THEN {}
                         ELSE {Wr(MapObj(field))})]

make_full_temp(fs) == Temp(0..(fs.element_size_ - 1))

is_path_field_name(fs, field_name) == field_name \in fs.path_field_names_

\* the FastUnion branch of make_field_copy: get_bitmap for every key
RECURSIVE UnionKeys(_, _, _, _, _)
UnionKeys(fs, field, keys, bits, acc) ==
  IF keys = <<>> THEN [fs |-> fs, bm |-> Temp(bits), acc |-> acc]
  ELSE LET r == FieldBitmapGroupSet_get_bitmap(fs, field, Head(keys))
       IN UnionKeys(r.fs, field, Tail(keys), bits \cup r.bm.bits, acc \cup r.acc)

make_field_copy(fs, field, keys) ==
  IF Len(keys) = 1 THEN FieldBitmapGroupSet_get_bitmap(fs, field, keys[1])
  ELSE IF Len(keys) > 1 THEN UnionKeys(fs, field, keys, {}, {})
  ELSE [fs |-> fs, bm |-> NullBitmap, acc |-> {}]

make_field_exclude_copy(fs, field, keys) ==
  LET pres == make_full_temp(fs)
      r == IF Len(keys) = 1
           THEN FieldBitmapGroupSet_get_bitmap(fs, field, keys[1])
           ELSE make_field_copy(fs, field, keys)
  IN IF Len(keys) = 0 THEN [fs |-> fs, bm |-> pres, acc |-> {}]
     ELSE [fs |-> r.fs,
           bm |-> IF r.bm.null THEN pres ELSE Temp(pres.bits \ r.bm.bits),
           acc |-> r.acc]

\* make_path_field_copy: the keys the DirIndex names for the prefixes, then
\* get_bitmap of the group for each of them (which inserts a missing key)
make_path_field_copy(fs, field, keys, depth) ==
  IF field \notin DOMAIN fs.field_bitmap_groups_map_
  THEN [fs |-> fs, bm |-> NullBitmap, acc |-> {}]
  ELSE IF depth = 0 - 1 /\ \E i \in DOMAIN keys : keys[i] = "/" \/ keys[i] = ""
  THEN [fs |-> fs, bm |-> make_full_temp(fs), acc |-> {}]
  ELSE IF fs.field_bitmap_groups_map_[field].dir_index_.null
  THEN [fs |-> fs, bm |-> NullBitmap, acc |-> {}]
  ELSE LET group == fs.field_bitmap_groups_map_[field]
           all_unique_bitmaps ==
             UNION {get_merged_bitmap(group.dir_index_, keys[i], depth) :
                      i \in DOMAIN keys}
           bitmap_group == [k \in DOMAIN group.bitmap_group_ \cup all_unique_bitmaps |->
                              IF k \in DOMAIN group.bitmap_group_
                              THEN group.bitmap_group_[k] ELSE BitmapInit]
       IN [fs |-> [fs EXCEPT !.field_bitmap_groups_map_[field].bitmap_group_ =
                                bitmap_group],
           bm |-> Temp(UNION {Bitmap_ids(bitmap_group[k]) : k \in all_unique_bitmaps}),
           acc |-> {Rd(DirIndexObj(field)), Rd(MapObj(field))}
                   \cup {Rd(BitmapObj(field, k)) : k \in all_unique_bitmaps}
                   \cup (IF all_unique_bitmaps \subseteq DOMAIN group.bitmap_group_
                         THEN {} ELSE {Wr(MapObj(field))})]

\* the exclusion with the keys looked up as they are, the directory tree left
\* aside
make_path_field_exclude_copy_ExactKeys(fs, field, keys, depth) ==
  make_field_exclude_copy(fs, field, keys)

make_path_field_exclude_copy(fs, field, keys, depth) ==
  LET pres == make_full_temp(fs)
      excluded(r) == [r EXCEPT !.bm = IF r.bm.null THEN pres
                                       ELSE Temp(pres.bits \ r.bm.bits)]
  IN excluded(make_path_field_copy(fs, field, keys, depth))

\* BitmapGroupBase::get_bitmap_by_prefix
get_bitmap_by_prefix(grp, prefix) ==
  LET matching == {k \in DOMAIN grp.bitmap_group_ : StartsWith(k, prefix)}
  IN IF matching = {} THEN NullBitmap
     ELSE Temp(UNION {Bitmap_ids(grp.bitmap_group_[k]) : k \in matching})

make_field_prefix_copy(fs, field, prefix) ==
  IF field \notin DOMAIN fs.field_bitmap_groups_map_
  THEN [fs |-> fs, bm |-> NullBitmap, acc |-> {}]
  ELSE LET search_prefix ==
             IF is_path_field_name(fs, field) /\ prefix # ""
                /\ Head(Chars(prefix)) # "/"
             THEN Str(<<"/">> \o Chars(prefix)) ELSE prefix
           grp == fs.field_bitmap_groups_map_[field]
       IN [fs |-> fs, bm |-> get_bitmap_by_prefix(grp, search_prefix),
           acc |-> {Rd(MapObj(field))}
                   \cup {Rd(BitmapObj(field, k)) : k \in DOMAIN grp.bitmap_group_}]

\* make_range_copy with BitmapGroupBase::get_bitmap_in_range
make_range_copy_OutClosed(fs, range_out, field, lower_than, include_le, greater_than, include_ge) ==
  IF field \notin DOMAIN fs.field_bitmap_groups_map_
  THEN [fs |-> fs, bm |-> NullBitmap, acc |-> {}]
  ELSE IF fs.field_bitmap_groups_map_[field].rangedmap_ptr_.null
  THEN [fs |-> fs, bm |-> NullBitmap, acc |-> {}]
  ELSE [fs |-> fs,
        bm |-> get_range_bitmap_with_slot_data(
                 fs.field_bitmap_groups_map_[field].rangedmap_ptr_.obj,
                 range_out, lower_than, include_le /\ ~range_out, greater_than,
                 include_ge /\ ~range_out),
        acc |-> {Rd(RangedMapObj(field))}]

make_range_copy(fs, range_out, field, lower_than, include_le, greater_than, include_ge) ==
  IF field \notin DOMAIN fs.field_bitmap_groups_map_
  THEN [fs |-> fs, bm |-> NullBitmap, acc |-> {}]
  ELSE IF fs.field_bitmap_groups_map_[field].rangedmap_ptr_.null
  THEN [fs |-> fs, bm |-> NullBitmap, acc |-> {}]
  ELSE [fs |-> fs,
        bm |-> get_range_bitmap_with_slot_data(
                 fs.field_bitmap_groups_map_[field].rangedmap_ptr_.obj,
                 range_out, lower_than, include_le, greater_than, include_ge),
        acc |-> {Rd(RangedMapObj(field))}]

\* ============================================================ filter DSL
\* A JSON object is a record of its members.  A member whose JSON type the
\* code tests is a tagged value; a value that is not an object is a tagged
\* value too.  The bounds of a range op are given as their numbers, "labels"
\* as a sequence of integers, "prefix" as its string and "para" as the N of
\* a string "-d=N".
JStr(str) == [t |-> "string", s |-> str]

JNum == [t |-> "number", s |-> "7"]

IsObject(doc) == "t" \notin DOMAIN doc

\* a filter op after load_json_doc; NullOp is the nullptr returned on failure
NullOp == [null |-> TRUE]

\* the registered filter ops that are modelled (the registry also holds
\* contains and regex)
FilterOpNames == {"and", "or", "must", "must_not", "range", "geo_range",
                  "range_out", "label_in", "prefix"}

LogicOpNames == {"and", "or"}

\* DBL_MAX: above every value written or asked for
DBL_MAX == MaxValue + 1000

\* parse_dir_semantic_para: -1 without "para", else the depth clamped
parse_dir_semantic_para(doc) ==
  IF "para" \in DOMAIN doc THEN Max(0 - 1, Min(50, doc.para)) ELSE 0 - 1

\* MustOp / MustNotOp::load_json_doc: FieldOpBase::parse_conds_ops for a
\* string field and string conds, then parse_dir_semantic_para
FieldOp_load_json_doc(opname, doc) ==
  IF "field" \notin DOMAIN doc THEN NullOp
  ELSE IF doc.field.t # "string" THEN NullOp
  ELSE IF "conds" \notin DOMAIN doc THEN NullOp
  ELSE [null |-> FALSE, op_name |-> opname, valid_ |-> TRUE,
        fields_ |-> <<doc.field.s>>, type_conds_ |-> doc.conds,
        empty_conds_ |-> Len(doc.conds) = 0,
        depth_ |-> parse_dir_semantic_para(doc),
        logic_conds_ |-> <<>>, ignore_empty_condition_ |-> FALSE]

\* RangeOp::load_json_doc for one field without center and radius
RangeOp_load_json_doc(opname, doc) ==
  IF "field" \notin DOMAIN doc THEN NullOp
  ELSE IF doc.field.t # "string" THEN NullOp
  ELSE IF ~\E m \in {"gte", "gt", "lte", "lt"} : m \in DOMAIN doc THEN NullOp
  ELSE [null |-> FALSE, op_name |-> opname, valid_ |-> TRUE,
        fields_ |-> <<doc.field.s>>, empty_conds_ |-> FALSE,
        range_out_ |-> opname = "range_out",
        greater_than_ |-> IF "gte" \in DOMAIN doc THEN doc.gte
                          ELSE IF "gt" \in DOMAIN doc THEN doc.gt
                          ELSE 0 - DBL_MAX,
        greater_than_equal_ |-> "gte" \in DOMAIN doc,
        less_than_ |-> IF "lte" \in DOMAIN doc THEN doc.lte
                       ELSE IF "lt" \in DOMAIN doc THEN doc.lt
                       ELSE DBL_MAX,
        less_than_equal_ |-> "lte" \in DOMAIN doc]

\* LabelInOp::load_json_doc
LabelInOp_load_json_doc(opname, doc) ==
  IF "labels" \notin DOMAIN doc THEN NullOp
  ELSE IF Len(doc.labels) <= 0 THEN NullOp
  ELSE [null |-> FALSE, op_name |-> opname, valid_ |-> TRUE,
        empty_conds_ |-> FALSE, label_u64_ |-> doc.labels]

\* PrefixOp::load_json_doc
PrefixOp_load_json_doc(opname, doc) ==
  IF "field" \notin DOMAIN doc THEN NullOp
  ELSE IF doc.field.t # "string" THEN NullOp
  ELSE IF "prefix" \notin DOMAIN doc THEN NullOp
  ELSE [null |-> FALSE, op_name |-> opname, valid_ |-> TRUE,
        empty_conds_ |-> FALSE, fields_ |-> <<doc.field.s>>,
        prefix_value_ |-> doc.prefix]

RECURSIVE parse_filter_json_doc(_)
RECURSIVE LogicOpBase_parse_conds_ops(_)

\* the loop over conds: ret 0 with the child ops, or the error code
LogicOpBase_parse_conds_ops(conds_arr) ==
  IF conds_arr = <<>> THEN [ret |-> 0, logic_conds_ |-> <<>>, empty_conds_ |-> FALSE]
  ELSE IF ~IsObject(Head(conds_arr))
  THEN [ret |-> 0 - 3, logic_conds_ |-> <<>>, empty_conds_ |-> FALSE]
  ELSE LET push(conds_i_op, rest) ==
             IF rest.ret # 0 THEN rest
             ELSE [ret |-> 0,
                   logic_conds_ |-> <<conds_i_op>> \o rest.logic_conds_,
                   empty_conds_ |-> conds_i_op.empty_conds_ \/ rest.empty_conds_]
           step(conds_i_op) ==
             IF conds_i_op.null
             THEN [ret |-> 0 - 4, logic_conds_ |-> <<>>, empty_conds_ |-> FALSE]
             ELSE push(conds_i_op, LogicOpBase_parse_conds_ops(Tail(conds_arr)))
       IN step(parse_filter_json_doc(Head(conds_arr)))

\* AndOp / OrOp::load_json_doc
LogicOp_load_json_doc(opname, doc) ==
  IF "conds" \notin DOMAIN doc THEN NullOp
  ELSE IF Len(doc.conds) <= 0 THEN NullOp
  ELSE LET loaded(r) ==
             IF r.ret # 0 THEN NullOp
             ELSE [null |-> FALSE, op_name |-> opname, valid_ |-> TRUE,
                   fields_ |-> <<>>, type_conds_ |-> <<>>,
                   empty_conds_ |-> r.empty_conds_, depth_ |-> 0 - 1,
                   logic_conds_ |-> r.logic_conds_,
                   ignore_empty_condition_ |->
                      /\ opname = "and"
                      /\ "ignore_empty_condition" \in DOMAIN doc
                      /\ doc.ignore_empty_condition]
       IN loaded(LogicOpBase_parse_conds_ops(doc.conds))

parse_filter_json_doc(json_doc) ==
  IF ~IsObject(json_doc) THEN NullOp
  ELSE IF "op" \notin DOMAIN json_doc THEN NullOp
  ELSE IF json_doc.op.t # "string" THEN NullOp
  ELSE IF json_doc.op.s \notin FilterOpNames THEN NullOp
  ELSE IF json_doc.op.s \in LogicOpNames
  THEN LogicOp_load_json_doc(json_doc.op.s, json_doc)
  ELSE IF json_doc.op.s \in {"range", "geo_range", "range_out"}
  THEN RangeOp_load_json_doc(json_doc.op.s, json_doc)
  ELSE IF json_doc.op.s = "label_in"
  THEN LabelInOp_load_json_doc(json_doc.op.s, json_doc)
  ELSE IF json_doc.op.s = "prefix"
  THEN PrefixOp_load_json_doc(json_doc.op.s, json_doc)
  ELSE FieldOp_load_json_doc(json_doc.op.s, json_doc)

parse_filter_json_doc_outter(json_doc) ==
  IF IsObject(json_doc) /\ "filter" \in DOMAIN json_doc
  THEN parse_filter_json_doc(json_doc.filter)
  ELSE parse_filter_json_doc(json_doc)

\* -------------------------------------------------------- filter evaluation
\* calc_bitmap returns the field set after the call, the bitmap (or null) and
\* the accesses made.
\* what MustOp, RangeOp, LabelInOp and PrefixOp do with their own bitmap
\* when they are handed the result so far
OnRes(self, fs, pres, on_res_op) ==
  IF pres.null THEN self
  ELSE IF on_res_op = "and"
  THEN [self EXCEPT !.bm = IF self.bm.null THEN NullBitmap
                            ELSE Temp(pres.bits \cap self.bm.bits)]
  ELSE IF on_res_op = "or"
  THEN [self EXCEPT !.bm = IF self.bm.null THEN pres
                            ELSE Temp(pres.bits \cup self.bm.bits)]
  ELSE [fs |-> fs, bm |-> NullBitmap, acc |-> {}]

MustOp_calc_self_bitmap(op, fs) ==
  IF is_path_field_name(fs, op.fields_[1])
  THEN make_path_field_copy(fs, op.fields_[1], op.type_conds_, op.depth_)
  ELSE make_field_copy(fs, op.fields_[1], op.type_conds_)

MustOp_calc_bitmap(op, fs, pres, on_res_op) ==
  IF Len(op.type_conds_) <= 0 THEN [fs |-> fs, bm |-> NullBitmap, acc |-> {}]
  ELSE OnRes(MustOp_calc_self_bitmap(op, fs), fs, pres, on_res_op)

MustNotOp_calc_self_bitmap(op, fs) ==
  IF is_path_field_name(fs, op.fields_[1])
  THEN make_path_field_exclude_copy(fs, op.fields_[1], op.type_conds_, op.depth_)
  ELSE make_field_exclude_copy(fs, op.fields_[1], op.type_conds_)

MustNotOp_calc_bitmap(op, fs, pres, on_res_op) ==
  LET exclude(r) == [r EXCEPT !.bm = IF r.bm.null THEN pres
                                      ELSE Temp(pres.bits \ r.bm.bits)]
      union(r) == [r EXCEPT !.bm = IF r.bm.null THEN pres
                                    ELSE Temp(pres.bits \cup r.bm.bits)]
  IN IF pres.null THEN MustNotOp_calc_self_bitmap(op, fs)
     ELSE IF on_res_op = "and"
     THEN IF Len(op.type_conds_) = 0 THEN [fs |-> fs, bm |-> pres, acc |-> {}]
          ELSE IF Len(op.type_conds_) = 1
          THEN exclude(FieldBitmapGroupSet_get_bitmap(fs, op.fields_[1],
                                                      op.type_conds_[1]))
          ELSE exclude(make_field_copy(fs, op.fields_[1], op.type_conds_))
     ELSE IF on_res_op = "or"
     THEN union(MustNotOp_calc_self_bitmap(op, fs))
     ELSE [fs |-> fs, bm |-> NullBitmap, acc |-> {}]

RangeOp_calc_self_bitmap(op, fs) ==
  make_range_copy(fs, op.range_out_, op.fields_[1], op.less_than_,
                  op.less_than_equal_, op.greater_than_, op.greater_than_equal_)

RangeOp_calc_bitmap(op, fs, pres, on_res_op) ==
  IF ~op.valid_ THEN [fs |-> fs, bm |-> NullBitmap, acc |-> {}]
  ELSE OnRes(RangeOp_calc_self_bitmap(op, fs), fs, pres, on_res_op)

\* the BruteforceSearch object of the manager
VARIABLES vector_index_

\* the converter IndexManagerImpl registers on the field set: the offsets of
\* the labels the vector store knows
label_u64_offset_converter_(labels) ==
  {get_offset_by_label(vector_index_, labels[i]) : i \in DOMAIN labels}
    \ {0 - 1}

VectorObj == <<"BruteforceSearch", "", "">>

LabelInOp_calc_self_bitmap(op, fs) ==
  LET offsets == label_u64_offset_converter_(op.label_u64_)
  IN [fs |-> fs, bm |-> IF offsets = {} THEN NullBitmap ELSE Temp(offsets),
      acc |-> {Rd(VectorObj)}]

LabelInOp_calc_bitmap(op, fs, pres, on_res_op) ==
  IF Len(op.label_u64_) <= 0 THEN [fs |-> fs, bm |-> NullBitmap, acc |-> {}]
  ELSE OnRes(LabelInOp_calc_self_bitmap(op, fs), fs, pres, on_res_op)

PrefixOp_calc_self_bitmap(op, fs) ==
  make_field_prefix_copy(fs, op.fields_[1], op.prefix_value_)

PrefixOp_calc_bitmap(op, fs, pres, on_res_op) ==
  IF op.prefix_value_ = "" THEN [fs |-> fs, bm |-> NullBitmap, acc |-> {}]
  ELSE OnRes(PrefixOp_calc_self_bitmap(op, fs), fs, pres, on_res_op)

RECURSIVE calc_bitmap(_, _, _, _)
RECURSIVE LogicLoop(_, _, _, _, _)
RECURSIVE IgnoreEmptyLoop(_, _, _, _)

\* calc_self_bitmap, plain loop: pres is handed from child to child; a null
\* result ends an "and" and is carried on by an "or"
LogicLoop(opname, conds, fs, pres, acc) ==
  IF conds = <<>> THEN [fs |-> fs, bm |-> pres, acc |-> acc]
  ELSE LET next(r) ==
             IF r.bm.null /\ opname # "or"
             THEN [fs |-> r.fs, bm |-> NullBitmap, acc |-> acc \cup r.acc]
             ELSE LogicLoop(opname, Tail(conds), r.fs, r.bm, acc \cup r.acc)
       IN next(calc_bitmap(Head(conds), fs, pres, opname))

\* the loop of an "and" that does not look at the flag
IgnoreEmptyLoop_Poisoned(conds, fs, pres, acc) ==
  LogicLoop("and", conds, fs, pres, acc)

\* calc_self_bitmap of an "and" with ignore_empty_condition
IgnoreEmptyLoop(conds, fs, pres, acc) ==
  IF conds = <<>> THEN [fs |-> fs, bm |-> pres, acc |-> acc]
  ELSE LET next(r) ==
             IgnoreEmptyLoop(Tail(conds), r.fs,
                             IF r.bm.null THEN pres
                             ELSE IF pres.null THEN r.bm
                             ELSE Temp(pres.bits \cap r.bm.bits),
                             acc \cup r.acc)
       IN next(calc_bitmap(Head(conds), fs, NullBitmap, "and"))

LogicOpBase_calc_self_bitmap(op, fs) ==
  IF op.op_name = "and" /\ op.ignore_empty_condition_
  THEN IgnoreEmptyLoop(op.logic_conds_, fs, NullBitmap, {})
  ELSE LogicLoop(op.op_name, op.logic_conds_, fs, NullBitmap, {})

LogicOpBase_calc_bitmap(op, fs, pres, on_res_op) ==
  LET merge(temp) ==
        IF pres.null THEN temp
        ELSE IF on_res_op = "and"
        THEN [temp EXCEPT !.bm = IF temp.bm.null THEN NullBitmap
                                  ELSE Temp(pres.bits \cap temp.bm.bits)]
        ELSE IF on_res_op = "or"
        THEN [temp EXCEPT !.bm = IF temp.bm.null THEN pres
                                  ELSE Temp(pres.bits \cup temp.bm.bits)]
        ELSE [fs |-> fs, bm |-> NullBitmap, acc |-> {}]
  IN merge(LogicOpBase_calc_self_bitmap(op, fs))

calc_bitmap(op, fs, pres, on_res_op) ==
  IF op.op_name = "must" THEN MustOp_calc_bitmap(op, fs, pres, on_res_op)
  ELSE IF op.op_name = "must_not" THEN MustNotOp_calc_bitmap(op, fs, pres, on_res_op)
  ELSE IF op.op_name \in {"range", "geo_range", "range_out"}
  THEN RangeOp_calc_bitmap(op, fs, pres, on_res_op)
  ELSE IF op.op_name = "label_in" THEN LabelInOp_calc_bitmap(op, fs, pres, on_res_op)
  ELSE IF op.op_name = "prefix" THEN PrefixOp_calc_bitmap(op, fs, pres, on_res_op)
  ELSE LogicOpBase_calc_bitmap(op, fs, pres, on_res_op)

\* ============================================================ sorter DSL
\* the registered sorter op that is modelled (the registry also holds "sort")
SorterOpNames == {"count"}

kDefaultGt == 0 - 1

kDefaultMaxEntry == 10000

\* CounterOp::load_json_doc: "field" absent, a string, or an array of strings
CounterOp_load_json_doc(doc) ==
  LET fields == IF "field" \notin DOMAIN doc THEN <<>>
                ELSE IF doc.field.t = "string" THEN <<doc.field.s>>
                ELSE IF doc.field.t = "array" THEN doc.field.a
                ELSE <<>>
  IN IF "field" \in DOMAIN doc
        /\ (doc.field.t \notin {"string", "array"} \/ fields = <<>>)
     THEN NullOp
     ELSE [null |-> FALSE, op_name |-> "count", valid_ |-> TRUE,
           fields_ |-> fields,
           gt_ |-> IF "gt" \in DOMAIN doc THEN doc.gt ELSE kDefaultGt,
           max_entry_ |-> IF "max_entry" \in DOMAIN doc THEN doc.max_entry
                          ELSE kDefaultMaxEntry]

parse_sorter_json_doc(json_doc) ==
  IF "op" \notin DOMAIN json_doc THEN NullOp
  ELSE IF json_doc.op.t # "string" THEN NullOp
  ELSE IF json_doc.op.s \notin SorterOpNames THEN NullOp
  ELSE CounterOp_load_json_doc(json_doc)

parse_sorter_json_doc_outter(json_doc) ==
  IF IsObject(json_doc) /\ "counter" \in DOMAIN json_doc
  THEN parse_sorter_json_doc(json_doc.counter)
  ELSE IF IsObject(json_doc) /\ "sorter" \in DOMAIN json_doc
  THEN parse_sorter_json_doc(json_doc.sorter)
  ELSE parse_sorter_json_doc(json_doc)

\* extra_json of a result: absent, or a JSON object of counts
NoJson == [present |-> FALSE, members |-> EmptyMap]

Json(members) == [present |-> TRUE, members |-> members]

\* BitmapGroupBase::count_field_enums(enum_count, enum_bitmaps, valid_bitmap):
\* every key of the group with the number of its ids (inside valid_bitmap
\* when one is given) and with these ids; a group with a RangedMap adds an
\* entry under its own name
count_field_enums(grp, group_name, valid_bitmap) ==
  LET ids(k) == IF valid_bitmap.null THEN Bitmap_ids(grp.bitmap_group_[k])
                ELSE Bitmap_ids(grp.bitmap_group_[k]) \cap valid_bitmap.bits
      ranged == IF grp.rangedmap_ptr_.null THEN {} ELSE {group_name}
  IN [enum_count |->
        [k \in DOMAIN grp.bitmap_group_ \cup ranged |->
           IF k \in ranged
           THEN IF valid_bitmap.null THEN Len(grp.rangedmap_ptr_.obj.offset_to_value_)
                ELSE Cardinality(valid_bitmap.bits)
           ELSE Cardinality(ids(k))],
      enum_bitmaps |-> [k \in DOMAIN grp.bitmap_group_ |-> ids(k)]]

\* BitmapGroupBase::count_field_enums(enum_count, first_enum_bitmaps): the
\* keys of the group inside the ids of every key of the first field, under
\* the joined key when there is an id; a group with a RangedMap adds the
\* number of ids of the first key under that key. (The keys of the model
\* hold no comma: a joined key names one pair of keys.)
count_field_enums_joint(grp, first_enum_bitmaps) ==
  LET pairs == {<<prefix, k>> \in (DOMAIN first_enum_bitmaps) \X (DOMAIN grp.bitmap_group_) :
                  Bitmap_ids(grp.bitmap_group_[k]) \cap first_enum_bitmaps[prefix] # {}}
      full_key(pair) == pair[1] \o "," \o pair[2]
      ranged == IF grp.rangedmap_ptr_.null THEN {} ELSE DOMAIN first_enum_bitmaps
  IN [key \in {full_key(pair) : pair \in pairs} \cup ranged |->
        IF key \in ranged THEN Cardinality(first_enum_bitmaps[key])
        ELSE LET pair == CHOOSE pair \in pairs : full_key(pair) = key
             IN Cardinality(Bitmap_ids(grp.bitmap_group_[pair[2]])
                            \cap first_enum_bitmaps[pair[1]])]

\* FieldBitmapGroupSet::count_field_enums(fields, enum_count, valid_bitmap)
\* for one or two fields: the return code and enum_count
FieldBitmapGroupSet_count_field_enums(fs, fields, valid_bitmap) ==
  IF Len(fields) = 1
  THEN IF fields[1] \notin DOMAIN fs.field_bitmap_groups_map_
       THEN [ret |-> 0 - 1, enum_count |-> EmptyMap]
       ELSE [ret |-> 0,
             enum_count |-> count_field_enums(fs.field_bitmap_groups_map_[fields[1]],
                                              fields[1], valid_bitmap).enum_count]
  ELSE IF fields[1] \notin DOMAIN fs.field_bitmap_groups_map_
  THEN [ret |-> 0 - 3, enum_count |-> EmptyMap]
  ELSE IF fields[2] \notin DOMAIN fs.field_bitmap_groups_map_
  THEN [ret |-> 0 - 4, enum_count |-> EmptyMap]
  ELSE [ret |-> 0,
        enum_count |->
          count_field_enums_joint(
            fs.field_bitmap_groups_map_[fields[2]],
            count_field_enums(fs.field_bitmap_groups_map_[fields[1]], fields[1],
                              valid_bitmap).enum_bitmaps)]

\* the accesses of a count by the fields: the key map and the Bitmaps of
\* every field that exists
count_acc(fs, fields) ==
  UNION {{Rd(MapObj(fields[i]))}
         \cup {Rd(BitmapObj(fields[i], k)) :
                 k \in DOMAIN fs.field_bitmap_groups_map_[fields[i]].bitmap_group_} :
         i \in {j \in DOMAIN fields : fields[j] \in DOMAIN fs.field_bitmap_groups_map_}}

\* CounterOp::_calc_topk_result: null, or the result with its extra json
\* (a counter result carries no offsets)
CounterOp_calc_topk_result(op, fs, valid_bitmap) ==
  IF Len(op.fields_) > 2
  THEN [null |-> TRUE, offsets |-> <<>>, acc |-> {}, extra_json |-> NoJson]
  ELSE IF Len(op.fields_) = 0
  THEN [null |-> FALSE, offsets |-> <<>>, acc |-> {},
        extra_json |-> Json([k \in {"__total_count__"} |->
                               IF valid_bitmap.null THEN fs.element_size_
                               ELSE Cardinality(valid_bitmap.bits)])]
  ELSE LET counted(r) ==
             IF r.ret # 0
             THEN [null |-> TRUE, offsets |-> <<>>, acc |-> {}, extra_json |-> NoJson]
             ELSE [null |-> FALSE, offsets |-> <<>>, acc |-> count_acc(fs, op.fields_),
                   extra_json |->
                     IF DOMAIN r.enum_count = {} THEN NoJson
                     ELSE Json([k \in {j \in DOMAIN r.enum_count :
                                          r.enum_count[j] > op.gt_} |-> r.enum_count[k]])]
       IN counted(FieldBitmapGroupSet_count_field_enums(fs, op.fields_, valid_bitmap))

\* ========================================================= IndexManagerImpl
\* A DSL string: empty, not JSON at all, or the text of a JSON value.
EmptyDsl == [text |-> "empty", doc |-> JNum]

GarbageDsl == [text |-> "garbage", doc |-> JNum]

JsonDsl(doc) == [text |-> "json", doc |-> doc]

\* rapidjson Parse: the parse error flag and the document
JsonParse(str) == [HasParseError |-> str.text # "json", doc |-> str.doc]

parse_and_precheck_op_parts(parsed) ==
  IF parsed.HasParseError \/ ~IsObject(parsed.doc)
  THEN [ret |-> 0 - 1, has_filter |-> FALSE, has_sorter |-> FALSE]
  ELSE LET hf == "filter" \in DOMAIN parsed.doc
           hs == "sorter" \in DOMAIN parsed.doc
       IN [ret |-> 0, has_filter |-> hf \/ ~(hf \/ hs), has_sorter |-> hs]

\* parse_dsl_query: the return code and the SearchContext
parse_dsl_query(dsl_filter_query_str) ==
  IF dsl_filter_query_str.text = "empty"
  THEN [ret |-> 0, filter_op |-> NullOp, sorter_op |-> NullOp]
  ELSE LET parts(parsed, pre) ==
             IF pre.ret < 0
             THEN [ret |-> 0 - 1, filter_op |-> NullOp, sorter_op |-> NullOp]
             ELSE [ret |-> 0,
                   filter_op |-> IF pre.has_filter
                                 THEN parse_filter_json_doc_outter(parsed.doc)
                                 ELSE NullOp,
                   sorter_op |-> IF pre.has_sorter
                                 THEN parse_sorter_json_doc_outter(parsed.doc)
                                 ELSE NullOp]
       IN parts(JsonParse(dsl_filter_query_str),
                parse_and_precheck_op_parts(JsonParse(dsl_filter_query_str)))

\* handle_sorter_query with the count taken from the scalar store
handle_sorter_query_ElementSize(ctx, bitmap, vi, fs) ==
  IF ctx.sorter_op.op_name = "count" /\ ctx.filter_op.null
  THEN [labels |-> <<>>, scores |-> <<>>, acc |-> {},
        extra_json |-> Json([k \in {"__total_count__"} |-> fs.element_size_])]
  ELSE LET convert(sorter_res) ==
             IF sorter_res.null
             THEN [labels |-> <<>>, scores |-> <<>>, acc |-> sorter_res.acc,
                   extra_json |-> NoJson]
             ELSE [labels |-> [i \in 1..Len(sorter_res.offsets) |->
                                 get_label_by_offset(vi, sorter_res.offsets[i])],
                   scores |-> <<>>, acc |-> sorter_res.acc,
                   extra_json |-> sorter_res.extra_json]
       IN convert(CounterOp_calc_topk_result(ctx.sorter_op, fs, bitmap))

\* handle_sorter_query: labels, scores and extra_json of the result
handle_sorter_query(ctx, bitmap, vi, fs) ==
  IF ctx.sorter_op.op_name = "count" /\ ctx.filter_op.null
  THEN [labels |-> <<>>, scores |-> <<>>, acc |-> {},
        extra_json |-> Json([k \in {"__total_count__"} |-> vi.current_count_])]
  ELSE LET convert(sorter_res) ==
             IF sorter_res.null
             THEN [labels |-> <<>>, scores |-> <<>>, acc |-> sorter_res.acc,
                   extra_json |-> NoJson]
             ELSE [labels |-> [i \in 1..Len(sorter_res.offsets) |->
                                 get_label_by_offset(vi, sorter_res.offsets[i])],
                   scores |-> <<>>, acc |-> sorter_res.acc,
                   extra_json |-> sorter_res.extra_json]
       IN convert(CounterOp_calc_topk_result(ctx.sorter_op, fs, bitmap))

\* IndexManagerImpl::search of a request without sparse terms: the status,
\* the SearchResult, the field set after the call, whether the reader lock
\* was taken and the accesses to the scalar store made under it
search(vi, fs, req) ==
  LET none == [labels |-> <<>>, scores |-> <<>>, extra_json |-> NoJson]
      sorted(f, h) ==
        [ret |-> 0,
         result |-> [labels |-> h.labels, scores |-> h.scores,
                     extra_json |-> h.extra_json],
         fs |-> f.fs, locked |-> TRUE, acc |-> f.acc \cup h.acc]
      recalled(f, k) ==
        [ret |-> 0,
         result |-> [labels |-> k.labels, scores |-> k.scores,
                     extra_json |-> NoJson],
         fs |-> f.fs, locked |-> TRUE, acc |-> f.acc]
      filtered(ctx, f) ==
        IF ~ctx.filter_op.null /\ f.bm.null
        THEN [ret |-> 0 - 1, result |-> none, fs |-> f.fs, locked |-> TRUE,
              acc |-> f.acc]
        ELSE IF ~ctx.sorter_op.null
        THEN sorted(f, handle_sorter_query(ctx, f.bm, vi, f.fs))
        ELSE IF ~req.query.null
        THEN recalled(f, search_knn(vi, req.query, req.topk, f.bm))
        ELSE [ret |-> 0, result |-> none, fs |-> f.fs, locked |-> TRUE,
              acc |-> f.acc]
      parsed(ctx) ==
        IF ctx.ret # 0
        THEN [ret |-> ctx.ret, result |-> none, fs |-> fs, locked |-> FALSE,
              acc |-> {}]
        ELSE IF ctx.filter_op.null
        THEN filtered(ctx, [fs |-> fs, bm |-> NullBitmap, acc |-> {}])
        ELSE filtered(ctx, calc_bitmap(ctx.filter_op, fs, NullBitmap,
                                       ctx.filter_op.op_name))
  IN parsed(parse_dsl_query(req.dsl))

\* ScalarIndex::dump: serialize_to_stream calls SerializeToString on every
\* stored Bitmap and on the Bitmap of every slot of a RangedMap, which
\* converts it to roaring in place
ScalarIndex_dump(fs) ==
  [fs EXCEPT !.field_bitmap_groups_map_ =
     [f \in DOMAIN @ |->
        [@[f] EXCEPT !.bitmap_group_ =
                       [k \in DOMAIN @ |-> Bitmap_to_roaring(@[k])],
                     !.rangedmap_ptr_.obj.slots_ =
                       [i \in DOMAIN @ |->
                          [@[i] EXCEPT !.bitmap = Bitmap_to_roaring(@)]]]]]

\* the accesses of a dump to the scalar store: every stored Bitmap is read,
\* and written when it is converted
dump_acc(fs) ==
  UNION {{Rd(MapObj(f))}
         \cup {Rd(BitmapObj(f, k)) : k \in DOMAIN fs.field_bitmap_groups_map_[f].bitmap_group_}
         \cup {Wr(BitmapObj(f, k)) :
                 k \in {k \in DOMAIN fs.field_bitmap_groups_map_[f].bitmap_group_ :
                          ~fs.field_bitmap_groups_map_[f].bitmap_group_[k].is_roaring_}}
         : f \in DOMAIN fs.field_bitmap_groups_map_}

\* ================================================================== state
VARIABLES
  scalar_index_,   \* the field set of the ScalarIndex
  rw_mutex_,       \* std::shared_mutex: the exclusive holder and the shared holders
  pc,              \* per thread: the manager call it is inside, or "idle"
  acc,             \* per reader thread: the accesses made under its lock so far
  batch,           \* the writer's loop: index i and data_list.size() n; it
                   \* stays as it was when an exception ended the call
  assigned,        \* history: logical offset -> label it was handed to by a
                   \* direct call on the vector store
  moved,           \* history: the last direct call was a remove_point that
                   \* moved the last row into the freed slot
  manager_meta_    \* ManagerMeta: update_timestamp

mgr_vars == <<scalar_index_, rw_mutex_, pc, acc, batch, manager_meta_>>

vars == <<vector_index_, scalar_index_, rw_mutex_, pc, acc, batch, assigned, moved, manager_meta_>>

\* ManagerMeta: update_timestamp is 0 until a batch sets it
ManagerMetaInit == [update_timestamp |-> 0]

\* the readings of std::chrono::system_clock::now(), in ns since the epoch
Clock == 1..MaxStamp

\* "if (has_update) manager_meta_->update_timestamp = now" with the reading
\* of the clock given
StampAt(has_update, now) ==
  manager_meta_' = IF has_update
                   THEN [manager_meta_ EXCEPT !.update_timestamp = now]
                   ELSE manager_meta_

\* the reading of the clock where the time of a call is not what is looked
\* at: all calls are made at the first time of the clock, so that what they
\* leave in the index is not told apart by the time of the last one
CallTime == CHOOSE now \in Clock : \A t \in Clock : now <= t

\* one background writer and the threads that search and dump
Writer == "w"

Readers == {"r1", "r2"}

Threads == Readers \cup {Writer}

NoThread == "none"

\* the ScalarIndexMeta of the manager: one string field
TitleMeta == [f \in {"title"} |-> "string"]

Init ==
  /\ \E es \in BOOLEAN : vector_index_ = BruteforceSearchInit(es)
  /\ scalar_index_ = FieldBitmapGroupSetInit(TitleMeta)
  /\ rw_mutex_ = [exclusive |-> NoThread, shared |-> {}]
  /\ pc = [t \in Threads |-> "idle"]
  /\ acc = [t \in Readers |-> {}]
  /\ batch = [i |-> 0, n |-> 0, has_update |-> FALSE]
  /\ assigned = EmptyMap
  /\ moved = FALSE
  /\ manager_meta_ = ManagerMetaInit

\* the history after a call on behalf of `label` took the store from bf0 to
\* bf1: a label that was absent and is now present was handed its offset
Handed(bf0, bf1, label) ==
  IF label \notin DOMAIN bf0.label_map_ /\ label \in DOMAIN bf1.label_map_
  THEN MapPut(assigned, get_offset_by_label(bf1, label), label)
  ELSE assigned

\* ------------------------------------------- vector store called directly
VecAdd(label, vector, sparse_data) ==
  /\ label \in DOMAIN vector_index_.label_map_
       \/ vector_index_.next_logical_offset_ < MaxOffset
  /\ \E r \in {add_point(vector_index_, vector, label, sparse_data)} :
       /\ vector_index_' = r.bf
       /\ assigned' = Handed(vector_index_, r.bf, label)
  /\ moved' = FALSE
  /\ UNCHANGED mgr_vars

VecRemove(label) ==
  /\ vector_index_' = remove_point(vector_index_, label).bf
  /\ moved' = /\ label \in DOMAIN vector_index_.label_map_
              /\ vector_index_.label_map_[label] # vector_index_.current_count_ - 1
  /\ UNCHANGED <<assigned, mgr_vars>>

\* dump followed by load: a new store constructed from the file just saved
VecSaveLoad ==
  /\ vector_index_' = load(vector_index_.enable_sparse, save(vector_index_))
  /\ moved' = FALSE
  /\ UNCHANGED <<assigned, mgr_vars>>

NextVec ==
  \/ \E l \in Labels, v \in Vectors, sp \in SparseArgs \cup {NullSparse} : VecAdd(l, v, sp)
  \/ \E l \in Labels : VecRemove(l)
  \/ VecSaveLoad

SpecVec == Init /\ [][NextVec]_vars

\* the vector store constructed without a sparse head: add_point is called
\* without sparse data
InitDense == Init /\ ~vector_index_.enable_sparse

NextDense ==
  \/ \E l \in Labels, v \in Vectors : VecAdd(l, v, NullSparse)
  \/ \E l \in Labels : VecRemove(l)
  \/ VecSaveLoad

SpecDense == InitDense /\ [][NextDense]_vars

\* ------------------------------------------------------- manager: inputs
\* FieldsDicts: no fields, or a title
NoFields == [str_kv_map_ |-> EmptyMap, dbl_kv_map_ |-> EmptyMap]

TitleA == [str_kv_map_ |-> [f \in {"title"} |-> <<"a">>], dbl_kv_map_ |-> EmptyMap]

\* add_data always hands add_point a datapoint: here one term with its
\* value, or one term without a value
TermWithValue == [null |-> FALSE, raw_terms |-> <<1>>, nvalues |-> 1]

TermWithoutValue == [null |-> FALSE, raw_terms |-> <<1>>, nvalues |-> 0]

\* the AddDataRequests of the writer: inserts with and without a title, an
\* update that names the old title, one that does not, and a record whose
\* sparse values do not match its terms
AddDataRequests ==
  <<[label |-> 1, vector |-> 0, sparse |-> TermWithValue,
     fields |-> TitleA, old_fields |-> NoFields],
    [label |-> MaxLabel, vector |-> MaxVec, sparse |-> TermWithValue,
     fields |-> NoFields, old_fields |-> NoFields],
    [label |-> 1, vector |-> 0, sparse |-> TermWithValue,
     fields |-> NoFields, old_fields |-> TitleA],
    [label |-> MaxLabel, vector |-> MaxVec, sparse |-> TermWithValue,
     fields |-> TitleA, old_fields |-> NoFields],
    [label |-> MaxLabel, vector |-> MaxVec, sparse |-> TermWithoutValue,
     fields |-> TitleA, old_fields |-> NoFields]>>

\* the DeleteDataRequests: with the old fields, and without (old_fields_str
\* is optional)
DeleteDataRequests ==
  <<[label |-> 1, old_fields |-> TitleA],
    [label |-> 1, old_fields |-> NoFields],
    [label |-> MaxLabel, old_fields |-> NoFields]>>

MustDoc(key) == [op |-> JStr("must"), field |-> JStr("title"), conds |-> <<key>>]

MustNotDoc(key) == [op |-> JStr("must_not"), field |-> JStr("title"), conds |-> <<key>>]

\* well-formed filter documents: keys that were written ("a") and never
\* written ("z"), a field outside the schema, and nested logic
FilterDocs ==
  <<MustDoc("a"), MustDoc("z"), MustNotDoc("a"), MustNotDoc("z"),
    [op |-> JStr("must"), field |-> JStr("ghost"), conds |-> <<"a">>],
    [op |-> JStr("and"), conds |-> <<MustDoc("a"), MustNotDoc("z")>>],
    [op |-> JStr("or"), conds |-> <<MustDoc("z"), MustDoc("a")>>]>>

\* filter documents that fail validation: unknown op, no op, op not a string,
\* no field, empty conds of a logic op, a bad child under a good parent
BadFilterDocs ==
  <<[op |-> JStr("frob")],
    [field |-> JStr("title"), conds |-> <<"a">>],
    [op |-> JNum],
    [op |-> JStr("must"), conds |-> <<"a">>],
    [op |-> JStr("or"), conds |-> <<>>],
    [op |-> JStr("and"), conds |-> <<MustDoc("a"), [op |-> JStr("frob")]>>]>>

SorterDocs == <<[op |-> JStr("count")], [op |-> JStr("count"), field |-> JStr("title")]>>

BadSorterDocs == <<[op |-> JStr("frob")], [op |-> JStr("count"), field |-> JNum]>>

\* the DSL strings of the search requests
WrapFilter(docs) == [i \in DOMAIN docs |-> JsonDsl([filter |-> docs[i]])]

WrapSorter(docs) == [i \in DOMAIN docs |-> JsonDsl([sorter |-> docs[i]])]

GoodDsls ==
  <<EmptyDsl, JsonDsl(MustDoc("a")),
    JsonDsl([filter |-> MustDoc("a"), sorter |-> SorterDocs[2]])>>
  \o WrapFilter(FilterDocs) \o WrapSorter(SorterDocs)

BadDsls ==
  <<GarbageDsl, JsonDsl(JNum),
    JsonDsl([filter |-> BadFilterDocs[1], sorter |-> SorterDocs[1]]),
    JsonDsl([filter |-> MustDoc("a"), sorter |-> BadSorterDocs[1]])>>
  \o WrapFilter(BadFilterDocs) \o WrapSorter(BadSorterDocs)

Dsls == GoodDsls \o BadDsls

\* the DSL strings the reader threads send
SearchDsls ==
  <<EmptyDsl, GarbageDsl,
    JsonDsl([filter |-> MustDoc("a")]), JsonDsl([filter |-> MustDoc("z")]),
    JsonDsl([filter |-> BadFilterDocs[1]]), JsonDsl([sorter |-> SorterDocs[2]])>>

Queries == {[null |-> TRUE, vec |-> 0]} \cup {[null |-> FALSE, vec |-> v] : v \in Vectors}

\* ------------------------------------------------------ manager: rw_mutex_
CanLockExclusive == rw_mutex_.exclusive = NoThread /\ rw_mutex_.shared = {}

CanLockShared == rw_mutex_.exclusive = NoThread

LockShared(t) == [rw_mutex_ EXCEPT !.shared = @ \cup {t}]

UnlockShared(t) == [rw_mutex_ EXCEPT !.shared = @ \ {t}]

\* the exclusive lock as it would be if leaving a call did not release it
Unlocked_StillHeld == rw_mutex_

\* ~unique_lock: the exclusive lock is released on every way out of the call
Unlocked == [rw_mutex_ EXCEPT !.exclusive = NoThread]

\* ------------------------------------------------------ manager: add_data
\* std::unique_lock taken; the loop over data_list starts
AddDataLock(n) ==
  /\ pc[Writer] = "idle"
  /\ CanLockExclusive
  /\ vector_index_.next_logical_offset_ + n <= MaxOffset
  /\ rw_mutex_' = [rw_mutex_ EXCEPT !.exclusive = Writer]
  /\ pc' = [pc EXCEPT ![Writer] = "add_data"]
  /\ batch' = [i |-> 0, n |-> n, has_update |-> FALSE]
  /\ UNCHANGED <<vector_index_, scalar_index_, acc, assigned, moved, manager_meta_>>

\* one iteration of the loop; an exception of stream_add_data leaves add_data
\* and releases the lock
AddDataRecord(data) ==
  /\ pc[Writer] = "add_data"
  /\ batch.i < batch.n
  /\ LET r == add_point(vector_index_, data.vector, data.label, data.sparse)
         offset == get_offset_by_label(r.bf, data.label)
     IN /\ vector_index_' = r.bf
        /\ IF r.threw
           THEN /\ rw_mutex_' = Unlocked
                /\ pc' = [pc EXCEPT ![Writer] = "idle"]
                /\ UNCHANGED <<scalar_index_, batch>>
           ELSE /\ scalar_index_' = IF offset < 0 THEN scalar_index_
                                    ELSE add_row_data(scalar_index_, offset,
                                                      data.fields, data.old_fields)
                /\ batch' = [batch EXCEPT !.i = @ + 1,
                                          !.has_update = @ \/ offset >= 0]
                /\ UNCHANGED <<rw_mutex_, pc>>
  /\ UNCHANGED <<acc, assigned, moved, manager_meta_>>

\* the loop is over: the timestamp is set when a record was applied,
\* add_data returns and the lock is released
AddDataReturn(now) ==
  /\ pc[Writer] = "add_data"
  /\ batch.i = batch.n
  /\ rw_mutex_' = Unlocked
  /\ pc' = [pc EXCEPT ![Writer] = "idle"]
  /\ batch' = [i |-> 0, n |-> 0, has_update |-> FALSE]
  /\ StampAt(batch.has_update, now)
  /\ UNCHANGED <<vector_index_, scalar_index_, acc, assigned, moved>>

\* --------------------------------------------------- manager: delete_data
DeleteDataLock(n) ==
  /\ pc[Writer] = "idle"
  /\ CanLockExclusive
  /\ rw_mutex_' = [rw_mutex_ EXCEPT !.exclusive = Writer]
  /\ pc' = [pc EXCEPT ![Writer] = "delete_data"]
  /\ batch' = [i |-> 0, n |-> n, has_update |-> FALSE]
  /\ UNCHANGED <<vector_index_, scalar_index_, acc, assigned, moved, manager_meta_>>

\* one iteration as it would be if stream_delete_data were not called: the
\* scalar entries go, the row stays in the vector store
DeleteDataRecord_KeepsVector(data) ==
  /\ pc[Writer] = "delete_data"
  /\ batch.i < batch.n
  /\ LET offset == get_offset_by_label(vector_index_, data.label)
     IN /\ scalar_index_' = IF offset < 0 THEN scalar_index_
                            ELSE delete_row_data(scalar_index_, offset, data.old_fields)
        /\ batch' = [batch EXCEPT !.i = @ + 1, !.has_update = @ \/ offset >= 0]
  /\ UNCHANGED <<vector_index_, rw_mutex_, pc, acc, assigned, moved, manager_meta_>>

\* one iteration: an absent label is skipped, otherwise scalar then vector
DeleteDataRecord(data) ==
  /\ pc[Writer] = "delete_data"
  /\ batch.i < batch.n
  /\ LET offset == get_offset_by_label(vector_index_, data.label)
         r == remove_point(vector_index_, data.label)
     IN IF offset < 0
        THEN /\ batch' = [batch EXCEPT !.i = @ + 1]
             /\ UNCHANGED <<vector_index_, scalar_index_, rw_mutex_, pc>>
        ELSE /\ scalar_index_' = delete_row_data(scalar_index_, offset, data.old_fields)
             /\ vector_index_' = r.bf
             /\ IF r.threw
                THEN /\ rw_mutex_' = Unlocked
                     /\ pc' = [pc EXCEPT ![Writer] = "idle"]
                     /\ UNCHANGED batch
                ELSE /\ batch' = [batch EXCEPT !.i = @ + 1, !.has_update = TRUE]
                     /\ UNCHANGED <<rw_mutex_, pc>>
  /\ UNCHANGED <<acc, assigned, moved, manager_meta_>>

\* the loop is over: the timestamp is set when a label was found
DeleteDataReturn(now) ==
  /\ pc[Writer] = "delete_data"
  /\ batch.i = batch.n
  /\ rw_mutex_' = Unlocked
  /\ pc' = [pc EXCEPT ![Writer] = "idle"]
  /\ batch' = [i |-> 0, n |-> 0, has_update |-> FALSE]
  /\ StampAt(batch.has_update, now)
  /\ UNCHANGED <<vector_index_, scalar_index_, acc, assigned, moved>>

\* -------------------------------------------------------- manager: search
\* parse_dsl_query runs before the lock and returns early on a parse error;
\* otherwise std::shared_lock is taken and the query is evaluated under it
Search(t, req) ==
  /\ pc[t] = "idle"
  /\ \E r \in {search(vector_index_, scalar_index_, req)} :
       IF ~r.locked
       THEN UNCHANGED <<scalar_index_, rw_mutex_, pc, acc>>
       ELSE /\ CanLockShared
            /\ rw_mutex_' = LockShared(t)
            /\ scalar_index_' = r.fs
            /\ acc' = [acc EXCEPT ![t] = r.acc]
            /\ pc' = [pc EXCEPT ![t] = "search"]
  /\ UNCHANGED <<vector_index_, batch, assigned, moved, manager_meta_>>

\* search returns: the shared lock is released
SearchReturn(t) ==
  /\ pc[t] = "search"
  /\ rw_mutex_' = UnlockShared(t)
  /\ acc' = [acc EXCEPT ![t] = {}]
  /\ pc' = [pc EXCEPT ![t] = "idle"]
  /\ UNCHANGED <<vector_index_, scalar_index_, batch, assigned, moved, manager_meta_>>

\* ---------------------------------------------------------- manager: dump
\* std::shared_lock is taken; the scalar store, then the vector store are
\* written out (io_ok = FALSE: create_directories fails and dump throws).
\* The files and the counters of the meta objects are not part of the state.
Dump(t, io_ok) ==
  /\ pc[t] = "idle"
  /\ CanLockShared
  /\ IF io_ok
     THEN /\ rw_mutex_' = LockShared(t)
          /\ scalar_index_' = ScalarIndex_dump(scalar_index_)
          /\ acc' = [acc EXCEPT ![t] = dump_acc(scalar_index_)]
          /\ pc' = [pc EXCEPT ![t] = "dump"]
     ELSE UNCHANGED <<scalar_index_, rw_mutex_, pc, acc>>
  /\ UNCHANGED <<vector_index_, batch, assigned, moved, manager_meta_>>

DumpReturn(t) ==
  /\ pc[t] = "dump"
  /\ rw_mutex_' = UnlockShared(t)
  /\ acc' = [acc EXCEPT ![t] = {}]
  /\ pc' = [pc EXCEPT ![t] = "idle"]
  /\ UNCHANGED <<vector_index_, scalar_index_, batch, assigned, moved, manager_meta_>>

Next ==
  \/ \E n \in 1..MaxBatch : AddDataLock(n)
  \/ \E d \in DOMAIN AddDataRequests : AddDataRecord(AddDataRequests[d])
  \/ AddDataReturn(CallTime)
  \/ \E n \in 1..MaxBatch : DeleteDataLock(n)
  \/ \E d \in DOMAIN DeleteDataRequests : DeleteDataRecord(DeleteDataRequests[d])
  \/ DeleteDataReturn(CallTime)
  \/ \E t \in Readers, di \in DOMAIN SearchDsls, q \in Queries, k \in 0..MaxTopk :
       Search(t, [dsl |-> SearchDsls[di], query |-> q, topk |-> k])
  \/ \E t \in Readers : SearchReturn(t)
  \/ \E t \in Readers, io_ok \in BOOLEAN : Dump(t, io_ok)
  \/ \E t \in Readers : DumpReturn(t)

Spec == Init /\ [][Next]_vars

\* the background writer alone: add_data and delete_data batches, one after
\* the other, with no reader inside the index
NextWriter ==
  \/ \E n \in 1..MaxBatch : AddDataLock(n)
  \/ \E d \in DOMAIN AddDataRequests : AddDataRecord(AddDataRequests[d])
  \/ AddDataReturn(CallTime)
  \/ \E n \in 1..MaxBatch : DeleteDataLock(n)
  \/ \E d \in DOMAIN DeleteDataRequests : DeleteDataRecord(DeleteDataRequests[d])
  \/ DeleteDataReturn(CallTime)

SpecWriter == Init /\ [][NextWriter]_vars

\* the writer alone with a clock that has moved between two batches: the
\* reading at the return of a batch differs from the timestamp that is stored
NextStamp ==
  \/ \E n \in 1..MaxBatch : AddDataLock(n)
  \/ \E d \in DOMAIN AddDataRequests : AddDataRecord(AddDataRequests[d])
  \/ \E now \in Clock \ {manager_meta_.update_timestamp} : AddDataReturn(now)
  \/ \E n \in 1..MaxBatch : DeleteDataLock(n)
  \/ \E d \in DOMAIN DeleteDataRequests : DeleteDataRecord(DeleteDataRequests[d])
  \/ \E now \in Clock \ {manager_meta_.update_timestamp} : DeleteDataReturn(now)

SpecStamp == Init /\ [][NextStamp]_vars

\* ================================================================= claims
\* C1: after any sequence of add_point / remove_point calls the label map and
\* the logical-offset map are mutually inverse over the live rows, every live
\* label occupies exactly one physical slot, and the element count equals
\* the size of the label map.
C1_MapsInverse ==
  LET bf == vector_index_
      live == 0..(bf.current_count_ - 1)
      row(i) == bf.data_buffer_[i + 1]
  IN
  /\ Len(bf.data_buffer_) = bf.current_count_
  /\ \A l \in DOMAIN bf.label_map_ :
        /\ bf.label_map_[l] \in live
        /\ row(bf.label_map_[l]).label = l
        /\ row(bf.label_map_[l]).off \in DOMAIN bf.offset_map_
        /\ get_label_by_offset(bf, get_offset_by_label(bf, l)) = l
  /\ \A o \in DOMAIN bf.offset_map_ :
        /\ bf.offset_map_[o] \in live
        /\ row(bf.offset_map_[o]).off = o
        /\ row(bf.offset_map_[o]).label \in DOMAIN bf.label_map_
        /\ get_offset_by_label(bf, get_label_by_offset(bf, o)) = o
  /\ \A l \in DOMAIN bf.label_map_ :
        Cardinality({i \in live : row(i).label = l}) = 1
  /\ bf.current_count_ = Cardinality(DOMAIN bf.label_map_)

\* a delete has moved the last row into the freed slot and rows remain
C1_Witness ==
  /\ moved
  /\ vector_index_.current_count_ >= 1
  /\ Cardinality(DOMAIN assigned) >= 3

\* C8: a newly added label receives a logical offset greater than every
\* offset handed out before, and an offset once handed to a label is never
\* handed to another label nor carried by another label's row, also after
\* deletes and after a dump followed by a load.
C8_FreshOffsets ==
  [][/\ \A o \in DOMAIN assigned :
          o \in DOMAIN assigned' /\ assigned'[o] = assigned[o]
     /\ \A i \in 1..Len(vector_index_'.data_buffer_) :
          LET r == vector_index_'.data_buffer_[i]
          IN r.off \in DOMAIN assigned' /\ assigned'[r.off] = r.label
     /\ \A l \in Labels :
          (l \notin DOMAIN vector_index_.label_map_
             /\ l \in DOMAIN vector_index_'.label_map_)
          => \A o \in DOMAIN assigned :
               o < get_offset_by_label(vector_index_', l)]_vars

\* a label that was deleted has been added again: it is live under a newer
\* offset than the one it was handed first, and all offsets are used up
C8_Witness ==
  /\ \E l \in DOMAIN vector_index_.label_map_, o \in DOMAIN assigned :
       assigned[o] = l /\ o < get_offset_by_label(vector_index_, l)
  /\ Cardinality(DOMAIN assigned) > vector_index_.current_count_
  /\ Cardinality(DOMAIN assigned) = MaxOffset

\* C9: with the sparse head enabled the sparse side and the dense side have
\* the same number of rows after every add_point and remove_point.
C9_SparseDenseRows ==
  vector_index_.enable_sparse => rows(vector_index_) = vector_index_.current_count_

\* a delete has moved the last row, which has terms, into the freed slot
C9_Witness ==
  /\ vector_index_.enable_sparse
  /\ moved
  /\ vector_index_.current_count_ >= 1
  /\ Len(vector_index_.sparse_index_.ds.flat_indices_) >= 1

\* C7 (as stated): deleting a record leaves the logical offset of every other
\* live record unchanged, and for every filter, query and limit the other
\* live labels returned by the filtered vector search are the same before
\* and after the delete.
C7_DeleteKeepsOthers ==
  [][\A gone \in Labels :
       vector_index_' = remove_point(vector_index_, gone).bf =>
       LET bf0 == vector_index_
           bf1 == vector_index_'
       IN /\ \A l \in DOMAIN bf0.label_map_ \ {gone} :
               get_offset_by_label(bf1, l) = get_offset_by_label(bf0, l)
          /\ \A bits \in SUBSET (0..(MaxOffset - 1)), q \in Vectors, k \in 0..MaxTopk :
               LET f == [null |-> FALSE, bits |-> bits]
                   qd == [null |-> FALSE, vec |-> q]
               IN Range(search_knn(bf1, qd, k, f).labels)
                    = Range(search_knn(bf0, qd, k, f).labels) \ {gone}]_vars

\* C7 (amended): the logical offsets of the other live records are unchanged,
\* and for every filter, query and limit that does not cut off any matching
\* row, the other live labels returned are the same before and after.
C7_DeleteKeepsOthersUncut ==
  [][\A gone \in Labels :
       vector_index_' = remove_point(vector_index_, gone).bf =>
       LET bf0 == vector_index_
           bf1 == vector_index_'
       IN /\ \A l \in DOMAIN bf0.label_map_ \ {gone} :
               get_offset_by_label(bf1, l) = get_offset_by_label(bf0, l)
          /\ \A bits \in SUBSET (0..(MaxOffset - 1)), q \in Vectors, k \in 0..MaxTopk :
               LET f == [null |-> FALSE, bits |-> bits]
                   qd == [null |-> FALSE, vec |-> q]
               IN k >= Cardinality(bits \cap DOMAIN bf0.offset_map_)
                    => Range(search_knn(bf1, qd, k, f).labels)
                         = Range(search_knn(bf0, qd, k, f).labels) \ {gone}]_vars

\* a delete has moved the last row into the freed slot and the moved record
\* is still found through its offset by a filtered search
C7_Witness ==
  /\ moved
  /\ \E o \in DOMAIN vector_index_.offset_map_ :
       /\ vector_index_.offset_map_[o] # o
       /\ search_knn(vector_index_, [null |-> FALSE, vec |-> 0], 1,
                     [null |-> FALSE, bits |-> {o}]).labels
            = <<get_label_by_offset(vector_index_, o)>>

\* ---------------------------------------------------------------------
\* A DSL string is invalid when it is not JSON, is not a JSON object, or
\* when the filter part or the sorter part it asks for fails validation
\* somewhere in its tree (the parser then returns nullptr).
InvalidDsl(dsl) ==
  /\ dsl.text # "empty"
  /\ LET parsed == JsonParse(dsl)
         pre == parse_and_precheck_op_parts(parsed)
     IN \/ pre.ret < 0
        \/ pre.has_filter /\ parse_filter_json_doc_outter(parsed.doc).null
        \/ pre.has_sorter /\ parse_sorter_json_doc_outter(parsed.doc).null

SearchOf(dsl, q, k) ==
  search(vector_index_, scalar_index_, [dsl |-> dsl, query |-> q, topk |-> k])

\* C2: in every state of the index, a search whose DSL string fails JSON
\* parsing or fails shape validation anywhere in its filter or sorter tree
\* reports an error status and returns no labels and no count.
C2_InvalidDslIsError ==
  \A di \in DOMAIN Dsls, q \in Queries, k \in 0..MaxTopk :
    InvalidDsl(Dsls[di]) =>
      LET r == SearchOf(Dsls[di], q, k)
      IN /\ r.ret # 0
         /\ r.result.labels = <<>>
         /\ ~r.result.extra_json.present

\* ---------------------------------------------------------------------
\* two accesses conflict when they touch the same object and one writes
Conflict(a, b) == a[1] = b[1] /\ (a[2] = "w" \/ b[2] = "w")

\* C3: searches that run at the same time make no conflicting accesses to
\* the index state, and no search runs while the writer is inside a batch.
C3_NoDataRace ==
  /\ \A t \in Readers, u \in Readers :
       (t # u /\ pc[t] = "search" /\ pc[u] = "search") =>
         \A a \in acc[t], b \in acc[u] : ~Conflict(a, b)
  /\ \A t \in Readers :
       pc[t] = "search" => pc[Writer] = "idle"

\* ---------------------------------------------------------------------
\* the last batch of the writer was ended by an exception after some of its
\* records had been applied
TornBatch == pc[Writer] = "idle" /\ 0 < batch.i /\ batch.i < batch.n

\* C4: a search only ever evaluates on an index state reached after a whole
\* number of the writer's batches: never inside a batch, and never on what
\* a batch left behind when only part of it was applied.
C4_SearchSeesWholeBatches ==
  \A t \in Readers :
    pc[t] = "search" => (pc[Writer] = "idle" /\ ~TornBatch)

\* ---------------------------------------------------------------------
\* C5: add_data, delete_data and dump hold rw_mutex_ exclusively while they
\* access the stores and search holds it shared; so while a dump runs no
\* search, no writer batch and no other dump is running.
C5_DumpExclusive ==
  /\ pc[Writer] # "idle" =>
       (rw_mutex_.exclusive = Writer /\ rw_mutex_.shared = {})
  /\ \A t \in Readers :
       pc[t] = "search" => (t \in rw_mutex_.shared /\ rw_mutex_.exclusive = NoThread)
  /\ \A t \in Readers :
       pc[t] = "dump" => \A u \in Threads \ {t} : pc[u] = "idle"

\* ---------------------------------------------------------------------
\* the field groups, their keys and the members of every key's bitmap
Content(fs) ==
  [f \in DOMAIN fs.field_bitmap_groups_map_ |->
     [k \in DOMAIN fs.field_bitmap_groups_map_[f].bitmap_group_ |->
        Bitmap_ids(fs.field_bitmap_groups_map_[f].bitmap_group_[k])]]

\* C6: in every state of the index, evaluating any filter or sorter tree
\* leaves every field group with the same keys and every bitmap with the
\* same members, also for keys and fields that do not exist.
C6_QueryReadOnly ==
  \A di \in DOMAIN Dsls, q \in Queries, k \in 0..MaxTopk :
    Content(SearchOf(Dsls[di], q, k).fs) = Content(scalar_index_)

\* ---------------------------------------------------------------------
\* the logical offsets that have an entry in the scalar store
ScalarOffsets(fs) ==
  UNION {UNION {Bitmap_ids(fs.field_bitmap_groups_map_[f].bitmap_group_[k]) :
                  k \in DOMAIN fs.field_bitmap_groups_map_[f].bitmap_group_} :
           f \in DOMAIN fs.field_bitmap_groups_map_}

\* C10: whenever add_data or delete_data has ended, normally or by an
\* exception, no record has entries in the scalar store while it is absent
\* from the vector store.
C10_StoresConsistent ==
  pc[Writer] = "idle" =>
    ScalarOffsets(scalar_index_) \subseteq DOMAIN vector_index_.offset_map_

\* ---------------------------------------------------------------------
\* the labels that some search returns: every DSL string the readers send,
\* every query and limit
Returned(vi, fs) ==
  UNION {Range(search(vi, fs, [dsl |-> SearchDsls[di], query |-> q,
                               topk |-> k]).result.labels) :
           di \in DOMAIN SearchDsls, q \in Queries, k \in 0..MaxTopk}

\* the offsets a filter document selects in the scalar store
FilterBits(fs, doc) ==
  calc_bitmap(parse_filter_json_doc(doc), fs, NullBitmap, doc.op.s).bm

\* every filtered vector search whose filter selects no live row is empty
DeadFilterIsEmpty(vi, fs) ==
  \A fi \in DOMAIN FilterDocs :
    \A b \in {FilterBits(fs, FilterDocs[fi])} :
      (~b.null /\ b.bits \cap DOMAIN vi.offset_map_ = {})
      => \A q \in Queries, k \in 0..MaxTopk :
           \A r \in {search(vi, fs, [dsl |-> JsonDsl([filter |-> FilterDocs[fi]]),
                                     query |-> q, topk |-> k])} :
             r.ret = 0 /\ r.result.labels = <<>>

\* C11: once delete_data has removed a live label, no vector search, with or
\* without a filter, returns that label until add_data adds it again, and a
\* filter that selects only deleted records returns an empty result.
C11_DeletedNotReturned ==
  [][\A before \in {Returned(vector_index_, scalar_index_)},
        after \in {Returned(vector_index_', scalar_index_')} :
       /\ \A d \in DOMAIN DeleteDataRequests :
            (DeleteDataRecord(DeleteDataRequests[d])
               /\ DeleteDataRequests[d].label \in DOMAIN vector_index_.label_map_)
            => DeleteDataRequests[d].label \notin after
       /\ \A l \in Labels :
            (l \notin before
               /\ ~\E a \in DOMAIN AddDataRequests :
                     AddDataRequests[a].label = l /\ AddDataRecord(AddDataRequests[a]))
            => l \notin after
       /\ DeadFilterIsEmpty(vector_index_', scalar_index_')]_vars

\* delete_data has returned having removed a record whose title is still in
\* the scalar store; another record is live; the must query on that title
\* succeeds and returns nothing
C11_Witness ==
  /\ pc[Writer] = "idle"
  /\ vector_index_.current_count_ >= 1
  /\ vector_index_.next_logical_offset_ > vector_index_.current_count_
  /\ ScalarOffsets(scalar_index_) # {}
  /\ ScalarOffsets(scalar_index_) \cap DOMAIN vector_index_.offset_map_ = {}
  /\ \E q \in Queries :
       /\ ~q.null
       /\ SearchOf(JsonDsl([filter |-> MustDoc("a")]), q, MaxTopk).ret = 0
       /\ SearchOf(JsonDsl([filter |-> MustDoc("a")]), q, MaxTopk).result.labels = <<>>
       /\ SearchOf(EmptyDsl, q, MaxTopk).result.labels # <<>>

\* ---------------------------------------------------------------------
\* the physical rows a search_knn call may return: every live row when there
\* is no filter bitmap, else the live rows whose logical offset is in it
Candidates(bf, filter_bitmap) ==
  IF filter_bitmap.null THEN 0..(bf.current_count_ - 1)
  ELSE {bf.offset_map_[o] : o \in filter_bitmap.bits \cap DOMAIN bf.offset_map_}

\* the result r of a search with limit k is the top k of the candidates
TopKOf(bf, query, k, filter_bitmap, r) ==
  LET cand == Candidates(bf, filter_bitmap)
      row(i) == bf.data_buffer_[i + 1]
      n == Len(r.labels)
  IN /\ n = Min(k, Cardinality(cand))
     /\ Len(r.scores) = n
     /\ \A i \in 1..n : \A j \in 1..n : i < j => r.scores[i] >= r.scores[j]
     /\ \A i \in 1..n : \A j \in 1..n : i # j => r.labels[i] # r.labels[j]
     /\ \A i \in 1..n :
          \E c \in cand : /\ row(c).label = r.labels[i]
                           /\ compute_score(query, row(c)) = r.scores[i]
     /\ \A c \in cand :
          row(c).label \notin Range(r.labels)
          => \A i \in 1..n : compute_score(query, row(c)) <= r.scores[i]

\* C12: a vector search with limit k returns min(k, number of candidates)
\* labels in non-increasing score order and they are the highest-scoring
\* candidates; the candidates are all live rows when there is no filter
\* bitmap and otherwise exactly the live rows whose logical offset is in it.
C12_TopK ==
  \A q \in Vectors, k \in 0..MaxTopk :
    /\ TopKOf(vector_index_, q, k, NullBitmap,
              search_knn(vector_index_, [null |-> FALSE, vec |-> q], k, NullBitmap))
    /\ \A bits \in SUBSET (0..(MaxOffset - 1)) :
         TopKOf(vector_index_, q, k, Temp(bits),
                search_knn(vector_index_, [null |-> FALSE, vec |-> q], k, Temp(bits)))

\* two live rows with different vectors, the better one for query 0 later in
\* the scan than the worse one: a search with limit 1 has to replace the heap
\* top, with and without a filter
C12_Witness ==
  /\ vector_index_.current_count_ = 2
  /\ vector_index_.data_buffer_[1].vec > vector_index_.data_buffer_[2].vec
  /\ vector_index_.data_buffer_[1].off < vector_index_.data_buffer_[2].off
  /\ search_knn(vector_index_, [null |-> FALSE, vec |-> 0], 1, NullBitmap).labels
       = <<vector_index_.data_buffer_[2].label>>
  /\ search_knn(vector_index_, [null |-> FALSE, vec |-> 0], 1,
                Temp(DOMAIN vector_index_.offset_map_)).labels
       = <<vector_index_.data_buffer_[2].label>>

\* ============================================== filters over three fields
\* the ScalarIndexMeta of an index with a string, a path and a float32 field
FilterMeta ==
  [f \in {"title", "dir", "price"} |->
     IF f = "title" THEN "string" ELSE IF f = "dir" THEN "path" ELSE "float32"]

InitFilter ==
  /\ vector_index_ = BruteforceSearchInit(FALSE)
  /\ scalar_index_ = FieldBitmapGroupSetInit(FilterMeta)
  /\ rw_mutex_ = [exclusive |-> NoThread, shared |-> {}]
  /\ pc = [t \in Threads |-> "idle"]
  /\ acc = [t \in Readers |-> {}]
  /\ batch = [i |-> 0, n |-> 0, has_update |-> FALSE]
  /\ assigned = EmptyMap
  /\ moved = FALSE
  /\ manager_meta_ = ManagerMetaInit

\* the FieldsDicts of the records: a title, a directory and a price
FieldsOf(title, dir, price) ==
  [str_kv_map_ |-> [f \in {"title", "dir"} |-> IF f = "title" THEN <<title>> ELSE <<dir>>],
   dbl_kv_map_ |-> [f \in {"price"} |-> price]]

\* the data set: the record with label 1 lies in /x, the one with label 2
\* below it
FilterLabels == {1, 2}

RecordOf(label) ==
  IF label = 1 THEN FieldsOf("a", "/x", 0) ELSE FieldsOf("ab", "/x/y", 1)

\* what a call carries for a label: its record, or no fields
FilterFields(label) == <<RecordOf(label), NoFields>>

\* add_data called with a list of one record: the lock, stream_add_data,
\* add_row_data at the offset of the label, and the unlock
AddDataOne(data) ==
  /\ pc[Writer] = "idle"
  /\ CanLockExclusive
  /\ vector_index_.next_logical_offset_ + 1 <= MaxOffset
  /\ \E r \in {add_point(vector_index_, data.vector, data.label, data.sparse)} :
       /\ vector_index_' = r.bf
       /\ scalar_index_' =
            IF r.threw \/ get_offset_by_label(r.bf, data.label) < 0
            THEN scalar_index_
            ELSE add_row_data(scalar_index_, get_offset_by_label(r.bf, data.label),
                              data.fields, data.old_fields)
       /\ StampAt(~r.threw /\ get_offset_by_label(r.bf, data.label) >= 0, CallTime)
  /\ UNCHANGED <<rw_mutex_, pc, acc, batch, assigned, moved>>

\* delete_data called with a list of one record
DeleteDataOne(data) ==
  /\ pc[Writer] = "idle"
  /\ CanLockExclusive
  /\ LET offset == get_offset_by_label(vector_index_, data.label)
     IN IF offset < 0
        THEN UNCHANGED <<vector_index_, scalar_index_, manager_meta_>>
        ELSE /\ scalar_index_' = delete_row_data(scalar_index_, offset, data.old_fields)
             /\ vector_index_' = remove_point(vector_index_, data.label).bf
             /\ StampAt(TRUE, CallTime)
  /\ UNCHANGED <<rw_mutex_, pc, acc, batch, assigned, moved>>

\* every label with its record or without fields: an insert or an update
\* that names no old fields, and a delete that names the record or nothing
\* as the old fields
NextFilter ==
  \/ \E l \in FilterLabels, f \in 1..2 :
       AddDataOne([label |-> l, vector |-> 0, sparse |-> TermWithValue,
                   fields |-> FilterFields(l)[f], old_fields |-> NoFields])
  \/ \E l \in FilterLabels, f \in 1..2 :
       DeleteDataOne([label |-> l, old_fields |-> FilterFields(l)[f]])

SpecFilter == InitFilter /\ [][NextFilter]_vars

\* ---------------------------------------------------------------------
\* the children the logic ops are built from: must on a written key, with no
\* conds, on a path; must_not on a key and on a path; range; label_in; prefix
\* with a written, an empty and an unwritten prefix; must with a key nobody
\* wrote next to a written one; a field outside the schema; a nested or
ChildDocs ==
  <<MustDoc("a"),
    [op |-> JStr("must"), field |-> JStr("title"), conds |-> <<>>],
    MustNotDoc("ab"),
    [op |-> JStr("must"), field |-> JStr("dir"), conds |-> <<"/x/y">>],
    [op |-> JStr("must_not"), field |-> JStr("dir"), conds |-> <<"/x">>],
    [op |-> JStr("range"), field |-> JStr("price"), gte |-> 1],
    [op |-> JStr("label_in"), labels |-> <<1>>],
    [op |-> JStr("prefix"), field |-> JStr("title"), prefix |-> "a"],
    [op |-> JStr("prefix"), field |-> JStr("title"), prefix |-> ""],
    [op |-> JStr("prefix"), field |-> JStr("title"), prefix |-> "z"],
    [op |-> JStr("must"), field |-> JStr("title"), conds |-> <<"z", "a">>],
    [op |-> JStr("must"), field |-> JStr("ghost"), conds |-> <<"a">>],
    [op |-> JStr("or"),
     conds |-> <<[op |-> JStr("must"), field |-> JStr("title"), conds |-> <<>>]>>]>>

\* the child lists of 1..MaxConds children, as indices into ChildDocs
ChildLists == UNION {[1..n -> DOMAIN ChildDocs] : n \in 1..MaxConds}

DocsOf(ix) == [i \in DOMAIN ix |-> ChildDocs[ix[i]]]

LogicDoc(opname, conds) == [op |-> JStr(opname), conds |-> conds]

\* the offsets a result selects: a null result selects none
BitsOf(bm) == IF bm.null THEN {} ELSE bm.bits

\* C13: an "or" node yields the union of the bitmaps of its children that
\* yield a non-null bitmap; a child that yields null, at any position and of
\* any operator type, contributes nothing and leaves the union of the others
\* unchanged.
C13_OrIsUnion ==
  \A ix \in ChildLists :
    BitsOf(FilterBits(scalar_index_, LogicDoc("or", DocsOf(ix))))
      = UNION {BitsOf(FilterBits(scalar_index_, ChildDocs[ix[i]])) : i \in DOMAIN ix}

\* ---------------------------------------------------------------------
\* the offsets every child of the list selects when it is evaluated on its
\* own; none when one of them yields null
Intersection(fs, ix) ==
  IF \E i \in DOMAIN ix : FilterBits(fs, ChildDocs[ix[i]]).null THEN {}
  ELSE {o \in 0..(MaxOffset - 1) :
          \A i \in DOMAIN ix : o \in FilterBits(fs, ChildDocs[ix[i]]).bits}

\* C14: an "and" node without ignore_empty_condition yields the intersection
\* of the bitmaps its children yield when each is evaluated on its own, for
\* every order and every operator type of the children, and no match when
\* any child yields null.
C14_AndIsIntersection ==
  \A ix \in ChildLists :
    BitsOf(FilterBits(scalar_index_, LogicDoc("and", DocsOf(ix))))
      = Intersection(scalar_index_, ix)

\* ---------------------------------------------------------------------
\* the field and the conds of the must / must_not documents: the string
\* field, a field outside the schema and the path field; no key, written
\* keys, keys nobody wrote, the root in both spellings, a key without its
\* leading '/' and one with a trailing '/'
KeyConds ==
  <<[field |-> "title", conds |-> <<>>],
    [field |-> "title", conds |-> <<"a">>],
    [field |-> "title", conds |-> <<"z">>],
    [field |-> "title", conds |-> <<"a", "ab">>],
    [field |-> "title", conds |-> <<"z", "ab">>],
    [field |-> "ghost", conds |-> <<"a">>],
    [field |-> "ghost", conds |-> <<"a", "z">>],
    [field |-> "dir", conds |-> <<>>],
    [field |-> "dir", conds |-> <<"/x">>],
    [field |-> "dir", conds |-> <<"/x/y">>],
    [field |-> "dir", conds |-> <<"/">>],
    [field |-> "dir", conds |-> <<"">>],
    [field |-> "dir", conds |-> <<"x">>],
    [field |-> "dir", conds |-> <<"/x/">>],
    [field |-> "dir", conds |-> <<"/y">>],
    [field |-> "dir", conds |-> <<"/x", "/y">>],
    [field |-> "dir", conds |-> <<"/x/y", "/">>]>>

FieldDoc(opname, fc) ==
  [op |-> JStr(opname), field |-> JStr(fc.field), conds |-> fc.conds]

FieldDocPara(opname, fc, n) ==
  [op |-> JStr(opname), field |-> JStr(fc.field), conds |-> fc.conds, para |-> n]

DepthParas == (0 - 1)..MaxDepth

\* the must_not document selects what make_full_temp holds and the must
\* document does not select
IsComplement(fs, must_doc, must_not_doc) ==
  /\ ~FilterBits(fs, must_not_doc).null
  /\ FilterBits(fs, must_not_doc).bits
       = make_full_temp(fs).bits \ BitsOf(FilterBits(fs, must_doc))

\* C15: whenever element_size > 0, for every field (enumerated or path, with
\* any depth parameter) and every key list, must_not yields exactly full_temp
\* minus the bitmap of must on the same field and keys, a null must result
\* counting as the empty set.
C15_MustNotIsComplement ==
  scalar_index_.element_size_ > 0 =>
    \A i \in DOMAIN KeyConds :
      /\ IsComplement(scalar_index_, FieldDoc("must", KeyConds[i]),
                      FieldDoc("must_not", KeyConds[i]))
      /\ \A n \in DepthParas :
           IsComplement(scalar_index_, FieldDocPara("must", KeyConds[i], n),
                        FieldDocPara("must_not", KeyConds[i], n))

\* two records, one in /x and one below it: must on /x with depth 0 selects
\* one of them and must_not the other, with no depth must selects both and
\* must_not none; must_not on a title selects the record with the other title
C15_Witness ==
  /\ scalar_index_.element_size_ = 2
  /\ Cardinality(FilterBits(scalar_index_,
                            FieldDocPara("must", KeyConds[9], 0)).bits) = 1
  /\ Cardinality(FilterBits(scalar_index_,
                            FieldDocPara("must_not", KeyConds[9], 0)).bits) = 1
  /\ FilterBits(scalar_index_, FieldDoc("must", KeyConds[9])).bits = {0, 1}
  /\ FilterBits(scalar_index_, FieldDoc("must_not", KeyConds[9])).bits = {}
  /\ Cardinality(FilterBits(scalar_index_, FieldDoc("must_not", KeyConds[2])).bits) = 1

\* ---------------------------------------------------------------------
AndIgnoreDoc(conds) ==
  [op |-> JStr("and"), conds |-> conds, ignore_empty_condition |-> TRUE]

\* the child list with child n put in at position p (0 = in front)
WithChild(ix, p, n) ==
  [i \in 1..(Len(ix) + 1) |-> IF i <= p THEN ix[i] ELSE IF i = p + 1 THEN n ELSE ix[i - 1]]

\* the nodes the child is added to: lists of 1..MaxConds children out of
\* must on a written key, range, and must with a key nobody wrote
BaseChildren == {1, 6, 11}

BaseLists == UNION {[1..n -> BaseChildren] : n \in 1..MaxConds}

\* the children that yield null in some state: must without conds, range,
\* label_in, the three prefix documents, the field outside the schema and the
\* nested or
NullChildren == {2, 6, 7, 8, 9, 10, 12, 13}

\* the documents parsed: the children, the nodes and the nodes with a child
\* added
ChildOps == [n \in DOMAIN ChildDocs |-> parse_filter_json_doc(ChildDocs[n])]

AndIgnoreOps ==
  [ix \in BaseLists
           \cup UNION {{WithChild(b, p, n) : p \in 0..Len(b), n \in NullChildren} :
                        b \in BaseLists} |->
     parse_filter_json_doc(AndIgnoreDoc(DocsOf(ix)))]

\* the field set as the loop of the node leaves it after the first p children
StateAfter(fs, ix, p) ==
  IgnoreEmptyLoop([i \in 1..p |-> ChildOps[ix[i]]], fs, NullBitmap, {}).fs

\* the child yields null where the node evaluates it
YieldsNullAt(fs, ix, p, n) ==
  calc_bitmap(ChildOps[n], StateAfter(fs, ix, p), NullBitmap, "and").bm.null

\* C16: for an "and" node with ignore_empty_condition = true, adding a child
\* that yields null, at any position in the child list, does not change the
\* result of the node.
C16_NullChildIgnored ==
  \A ix \in BaseLists :
    \A base \in {calc_bitmap(AndIgnoreOps[ix], scalar_index_, NullBitmap, "and").bm} :
      \A p \in 0..Len(ix) : \A fs \in {StateAfter(scalar_index_, ix, p)} :
        \A n \in NullChildren :
          calc_bitmap(ChildOps[n], fs, NullBitmap, "and").bm.null =>
            calc_bitmap(AndIgnoreOps[WithChild(ix, p, n)], scalar_index_,
                        NullBitmap, "and").bm = base

\* a record with title a is there and no price is 1 or more: the range child
\* yields null, the node of must and range selects the record as the node of
\* must alone does, and the same node without the flag selects nothing
C16_Witness ==
  /\ YieldsNullAt(scalar_index_, <<1>>, 1, 6)
  /\ FilterBits(scalar_index_, ChildDocs[1]).bits # {}
  /\ calc_bitmap(AndIgnoreOps[<<1, 6>>], scalar_index_, NullBitmap, "and").bm
       = FilterBits(scalar_index_, ChildDocs[1])
  /\ FilterBits(scalar_index_, LogicDoc("and", <<ChildDocs[1], ChildDocs[6]>>)).null

\* ========================================================= one float field
\* the ScalarIndexMeta of an index with a float32 field: its group holds a
\* RangedMap
RangedMeta == [f \in {"price"} |-> "float32"]

InitRanged ==
  /\ vector_index_ = BruteforceSearchInit(FALSE)
  /\ scalar_index_ = FieldBitmapGroupSetInit(RangedMeta)
  /\ rw_mutex_ = [exclusive |-> NoThread, shared |-> {}]
  /\ pc = [t \in Threads |-> "idle"]
  /\ acc = [t \in Readers |-> {}]
  /\ batch = [i |-> 0, n |-> 0, has_update |-> FALSE]
  /\ assigned = EmptyMap
  /\ moved = FALSE
  /\ manager_meta_ = ManagerMetaInit

PriceOf(value) ==
  [str_kv_map_ |-> EmptyMap, dbl_kv_map_ |-> [f \in {"price"} |-> value]]

\* ScalarIndex::add_row_data called with a price and no old fields: the add is
\* rejected when the offset has a value
RangedAdd(offset, value) ==
  /\ scalar_index_' = add_row_data(scalar_index_, offset, PriceOf(value), NoFields)
  /\ UNCHANGED <<vector_index_, rw_mutex_, pc, acc, batch, assigned, moved, manager_meta_>>

\* ScalarIndex::delete_row_data called with a price as the old fields
RangedDelete(offset, value) ==
  /\ scalar_index_' = delete_row_data(scalar_index_, offset, PriceOf(value))
  /\ UNCHANGED <<vector_index_, rw_mutex_, pc, acc, batch, assigned, moved, manager_meta_>>

NextRanged ==
  \/ \E o \in 0..(MaxOffset - 1), v \in Values : RangedAdd(o, v)
  \/ \E o \in 0..(MaxOffset - 1), v \in Values : RangedDelete(o, v)

SpecRanged == InitRanged /\ [][NextRanged]_vars

\* the RangedMap of the field
PriceMap == scalar_index_.field_bitmap_groups_map_["price"].rangedmap_ptr_.obj

\* the offsets that have a value
Valued(rm) ==
  {o \in 0..(Len(rm.offset_to_value_) - 1) : ~isnan(rm.offset_to_value_[o + 1])}

\* the places of an offset: slot and position in its offset_vec
PlacesOf(rm, o) ==
  {p \in UNION {{<<s, i>> : i \in DOMAIN rm.slots_[s].offset_vec} : s \in DOMAIN rm.slots_} :
     rm.slots_[p[1]].offset_vec[p[2]] = o}

\* C17: after any sequence of RangedMap adds and deletes (rejected adds, slot
\* splits and removal of emptied slots included) every slot's value_vec is
\* ascending, every slot's bitmap holds exactly the offsets in its offset_vec,
\* and every offset that has a value appears in exactly one slot, at a
\* position whose value equals offset_to_value of the offset.
C17_SlotsConsistent ==
  /\ \A s \in DOMAIN PriceMap.slots_ :
       /\ Len(PriceMap.slots_[s].value_vec) = Len(PriceMap.slots_[s].offset_vec)
       /\ \A i \in DOMAIN PriceMap.slots_[s].value_vec :
            \A j \in DOMAIN PriceMap.slots_[s].value_vec :
              i < j => PriceMap.slots_[s].value_vec[i] <= PriceMap.slots_[s].value_vec[j]
       /\ Bitmap_ids(PriceMap.slots_[s].bitmap) = Range(PriceMap.slots_[s].offset_vec)
  /\ \A o \in Valued(PriceMap) :
       /\ Cardinality(PlacesOf(PriceMap, o)) = 1
       /\ \A p \in PlacesOf(PriceMap, o) :
            PriceMap.slots_[p[1]].value_vec[p[2]] = PriceMap.offset_to_value_[o + 1]

\* a slot was split and a delete took a value out of one of the halves: two
\* slots with two values are left, an offset has lost its value and an add on
\* an offset that has one is rejected
C17_Witness ==
  /\ Len(PriceMap.slots_) = 2
  /\ Cardinality(Valued(PriceMap)) = 2
  /\ Len(PriceMap.offset_to_value_) = MaxOffset
  /\ \E o \in Valued(PriceMap), v \in Values :
       /\ v # PriceMap.offset_to_value_[o + 1]
       /\ add_row_data(scalar_index_, o, PriceOf(v), NoFields) = scalar_index_

\* C18: after any sequence of RangedMap adds and deletes, for every multiset
\* of values, many equal values included, the slots are strictly ordered by
\* their left bound and their value ranges do not overlap: the right bound of
\* a slot is below the left bound of the next one, and left and right of each
\* slot are the first and the last value of its value_vec.
C18_SlotsOrdered ==
  /\ \A s \in DOMAIN PriceMap.slots_ :
       /\ PriceMap.slots_[s].value_vec # <<>>
       /\ PriceMap.slots_[s].left = PriceMap.slots_[s].value_vec[1]
       /\ PriceMap.slots_[s].right
            = PriceMap.slots_[s].value_vec[Len(PriceMap.slots_[s].value_vec)]
  /\ \A s \in 1..(Len(PriceMap.slots_) - 1) :
       /\ PriceMap.slots_[s].left < PriceMap.slots_[s + 1].left
       /\ PriceMap.slots_[s].right < PriceMap.slots_[s + 1].left

\* C18, as the code keeps it: the slots are ordered, the right bound of a slot
\* is at most the left bound of the next one (they are equal when a split cut
\* a run of equal values), and left and right of each slot are the first and
\* the last value of its value_vec, which is never empty.
C18_SlotsWeaklyOrdered ==
  /\ \A s \in DOMAIN PriceMap.slots_ :
       /\ PriceMap.slots_[s].value_vec # <<>>
       /\ PriceMap.slots_[s].left = PriceMap.slots_[s].value_vec[1]
       /\ PriceMap.slots_[s].right
            = PriceMap.slots_[s].value_vec[Len(PriceMap.slots_[s].value_vec)]
  /\ \A s \in 1..(Len(PriceMap.slots_) - 1) :
       /\ PriceMap.slots_[s].left <= PriceMap.slots_[s + 1].left
       /\ PriceMap.slots_[s].right <= PriceMap.slots_[s + 1].left

\* a split cut a run of equal values and a delete followed: two slots that
\* meet in one value, and an offset that has lost its value
C18_Witness ==
  /\ Len(PriceMap.slots_) = 2
  /\ PriceMap.slots_[1].right = PriceMap.slots_[2].left
  /\ Cardinality(Valued(PriceMap)) < Len(PriceMap.offset_to_value_)

\* ---------------------------------------------------------------------
\* the bounds of a range document: the lower one absent, "gt" or "gte", the
\* upper one absent, "lt" or "lte", their values from below the smallest to
\* above the largest value written
BoundValues == (0 - 1)..(MaxValue + 1)

LowerKinds == {"none", "gt", "gte"}

UpperKinds == {"none", "lt", "lte"}

\* <<lower kind, lower value, upper kind, upper value>>, one bound at least;
\* the value of an absent bound is not written and stands as 0
RangeBounds ==
  {b \in LowerKinds \X BoundValues \X UpperKinds \X BoundValues :
     /\ b[1] # "none" \/ b[3] # "none"
     /\ b[1] = "none" => b[2] = 0
     /\ b[3] = "none" => b[4] = 0}

Members(a, b) == [k \in DOMAIN a \cup DOMAIN b |-> IF k \in DOMAIN a THEN a[k] ELSE b[k]]

RangeDoc(opname, lk, lv, hk, hv) ==
  Members([op |-> JStr(opname), field |-> JStr("price")],
          Members(IF lk = "gt" THEN [gt |-> lv]
                  ELSE IF lk = "gte" THEN [gte |-> lv] ELSE EmptyMap,
                  IF hk = "lt" THEN [lt |-> hv]
                  ELSE IF hk = "lte" THEN [lte |-> hv] ELSE EmptyMap))

\* the parsed range and range_out filters of the bounds
RangeOps ==
  [opname \in {"range", "range_out"} |->
     [b \in RangeBounds |->
        parse_filter_json_doc(RangeDoc(opname, b[1], b[2], b[3], b[4]))]]

\* the offsets a range filter yields (none for a null bitmap)
RangeBits(fs, opname, b) ==
  BitsOf(calc_bitmap(RangeOps[opname][b], fs, NullBitmap, opname).bm)

\* the interval predicate of the bounds
InInterval(v, lk, lv, hk, hv) ==
  /\ lk = "gt" => v > lv
  /\ lk = "gte" => v >= lv
  /\ hk = "lt" => v < hv
  /\ hk = "lte" => v <= hv

\* C19: for every combination of bounds (gt or gte, lt or lte, either or both
\* present) and every RangedMap state reachable by adds and deletes, the range
\* bitmap holds exactly the offsets that have a value and whose value
\* satisfies the interval predicate.
C19_RangeExact ==
  \A b \in RangeBounds :
    RangeBits(scalar_index_, "range", b)
      = {o \in Valued(PriceMap) :
           InInterval(PriceMap.offset_to_value_[o + 1], b[1], b[2], b[3], b[4])}

\* a split slot map queried between its slots: the three offsets have the
\* values 0 .. MaxValue in two slots, and the range from 0 (included) to
\* MaxValue (excluded) takes the whole first slot and a part of the second
C19_Witness ==
  /\ Len(PriceMap.slots_) = 2
  /\ Cardinality(Valued(PriceMap)) = 3
  /\ PriceMap.slots_[1].right < PriceMap.slots_[2].left
  /\ Cardinality(RangeBits(scalar_index_, "range", <<"gte", 0, "lt", MaxValue>>)) = 2

\* C20: range_out inverts the interval: for every choice of bounds range_out
\* yields exactly the offsets that have a value and whose value lies outside
\* the interval that range with the same bounds selects, so that the two
\* results are disjoint and together cover every offset that has a value.
C20_RangeOutInverts ==
  \A b \in RangeBounds :
    \A outside \in {RangeBits(scalar_index_, "range_out", b)} :
      \A inside \in {RangeBits(scalar_index_, "range", b)} :
        /\ outside = {o \in Valued(PriceMap) :
                        ~InInterval(PriceMap.offset_to_value_[o + 1], b[1], b[2], b[3], b[4])}
        /\ outside \cap inside = {}
        /\ outside \cup inside = Valued(PriceMap)

\* the bounds are crossed: both are present and the upper one is below the
\* lower one, the case inside which range_out swaps them
Crossed(lk, lv, hk, hv) == lk # "none" /\ hk # "none" /\ hv < lv

\* the interval range_out leaves outside: the one of the bounds, or, for crossed
\* bounds, the one from the upper to the lower bound, each end included when
\* the bound it came from was
LeftOut(v, lk, lv, hk, hv) ==
  IF Crossed(lk, lv, hk, hv)
  THEN InInterval(v, IF hk = "lte" THEN "gte" ELSE "gt", hv,
                     IF lk = "gte" THEN "lte" ELSE "lt", lv)
  ELSE InInterval(v, lk, lv, hk, hv)

\* C20, as the code computes it: range_out yields exactly the offsets that
\* have a value outside the interval it leaves outside. For bounds that are not
\* crossed that is the interval range selects, and the two results are
\* disjoint and cover every offset that has a value; for crossed bounds range
\* is empty and range_out leaves outside the values between the two bounds.
C20_RangeOutLeavesOut ==
  \A b \in RangeBounds :
    \A outside \in {RangeBits(scalar_index_, "range_out", b)} :
      \A inside \in {RangeBits(scalar_index_, "range", b)} :
        /\ outside = {o \in Valued(PriceMap) :
                        ~LeftOut(PriceMap.offset_to_value_[o + 1], b[1], b[2], b[3], b[4])}
        /\ outside \cap inside = {}
        /\ ~Crossed(b[1], b[2], b[3], b[4]) => outside \cup inside = Valued(PriceMap)
        /\ Crossed(b[1], b[2], b[3], b[4]) => inside = {}

\* three values inside two slots, queried with crossed bounds that enclose the
\* middle value only: range_out leaves that one outside and range is empty; with
\* both bounds on the middle value, not crossed, it leaves the same one outside
C20_Witness ==
  /\ Len(PriceMap.slots_) = 2
  /\ Cardinality(Valued(PriceMap)) = 3
  /\ Cardinality(RangeBits(scalar_index_, "range_out", <<"gt", MaxValue, "lt", 0>>)) = 2
  /\ RangeBits(scalar_index_, "range", <<"gt", MaxValue, "lt", 0>>) = {}
  /\ Cardinality(RangeBits(scalar_index_, "range_out", <<"gte", 1, "lte", 1>>)) = 2

\* ============================================================ RangedMap top-k
\* An offset_filter_t: a callable that is true on the offsets to skip, or an
\* empty std::function (has = FALSE).
NoFilter == [has |-> FALSE, skip |-> {}]

SkipFilter(skip) == [has |-> TRUE, skip |-> skip]

\* a RecallResult after swap_offsets_vec
RecallResult(offsets, scores) == [null |-> FALSE, offsets |-> offsets, scores |-> scores]

EmptyRecall == RecallResult(<<>>, <<>>)

\* the inner loop of get_topk_result_with_slot_data over one slot, from
\* offset_idx on in the direction of the order: the result so far grows by
\* the offsets the filter lets through until it holds topk of them
RECURSIVE topk_slot_loop(_, _, _, _, _, _)
topk_slot_loop(slot, topk, order_asc, filter_func, offset_idx, res) ==
  IF offset_idx < 0 \/ offset_idx >= Len(slot.offset_vec) THEN res
  ELSE LET next == IF order_asc THEN offset_idx + 1 ELSE offset_idx - 1
       IN IF filter_func.has /\ slot.offset_vec[offset_idx + 1] \in filter_func.skip
          THEN topk_slot_loop(slot, topk, order_asc, filter_func, next, res)
          ELSE LET taken == RecallResult(
                              Append(res.offsets, slot.offset_vec[offset_idx + 1]),
                              Append(res.scores, slot.value_vec[offset_idx + 1]))
               IN IF Len(taken.offsets) >= topk THEN taken
                  ELSE topk_slot_loop(slot, topk, order_asc, filter_func, next, taken)

\* the outer loop over the slots, from slot_idx on
RECURSIVE topk_slots_loop(_, _, _, _, _, _)
topk_slots_loop(slots, topk, order_asc, filter_func, slot_idx, res) ==
  IF slot_idx < 0 \/ slot_idx >= Len(slots) \/ Len(res.offsets) >= topk THEN res
  ELSE topk_slots_loop(slots, topk, order_asc, filter_func,
                       IF order_asc THEN slot_idx + 1 ELSE slot_idx - 1,
                       topk_slot_loop(slots[slot_idx + 1], topk, order_asc, filter_func,
                                      IF order_asc THEN 0
                                      ELSE Len(slots[slot_idx + 1].offset_vec) - 1,
                                      res))

get_topk_result_with_slot_data_Reversed(rm, topk, order_asc, filter_func) ==
  topk_slots_loop(rm.slots_, topk, order_asc, filter_func,
                  IF order_asc THEN Len(rm.slots_) - 1 ELSE 0, EmptyRecall)

get_topk_result_with_slot_data(rm, topk, order_asc, filter_func) ==
  topk_slots_loop(rm.slots_, topk, order_asc, filter_func,
                  IF order_asc THEN 0 ELSE Len(rm.slots_) - 1, EmptyRecall)

\* ---------------------------------------------------------------------
\* the filters of a top-k call: none, or one that skips a set of offsets
TopkFilters == {NoFilter} \cup {SkipFilter(skip) : skip \in SUBSET (0..(MaxOffset - 1))}

\* the numbers asked for: none, fewer than, as many as and more than there are
TopkSizes == 0..(MaxOffset + 1)

\* the offsets of the map that pass the filter and have a value
Passing(rm, filter_func) == Valued(rm) \ filter_func.skip

\* C21: top_k(k, asc, filter) returns min(k, number of filter-passing offsets
\* that have a value) offsets, each once, all of which pass the filter,
\* ordered by value in the requested direction with their values as scores,
\* and no filter-passing offset left out has a value strictly smaller (asc) or
\* strictly larger (desc) than a returned one.
C21_TopkSmallest ==
  \A topk \in TopkSizes, order_asc \in BOOLEAN, filter_func \in TopkFilters :
    \A res \in {get_topk_result_with_slot_data(PriceMap, topk, order_asc, filter_func)} :
      /\ ~res.null
      /\ Len(res.offsets) = Min(topk, Cardinality(Passing(PriceMap, filter_func)))
      /\ Len(res.scores) = Len(res.offsets)
      /\ Cardinality(Range(res.offsets)) = Len(res.offsets)
      /\ Range(res.offsets) \subseteq Passing(PriceMap, filter_func)
      /\ \A i \in DOMAIN res.offsets :
           res.scores[i] = PriceMap.offset_to_value_[res.offsets[i] + 1]
      /\ \A i \in DOMAIN res.scores : \A j \in DOMAIN res.scores :
           i < j => IF order_asc THEN res.scores[i] <= res.scores[j]
                    ELSE res.scores[i] >= res.scores[j]
      /\ \A o \in Passing(PriceMap, filter_func) \ Range(res.offsets) :
           \A i \in DOMAIN res.scores :
             IF order_asc THEN PriceMap.offset_to_value_[o + 1] >= res.scores[i]
             ELSE PriceMap.offset_to_value_[o + 1] <= res.scores[i]

\* three values in two slots, one of them filtered out: the two smallest of
\* the passing ones come from both slots, and the largest one alone is asked
\* for in descending order
C21_Witness ==
  /\ Len(PriceMap.slots_) = 2
  /\ Cardinality(Valued(PriceMap)) = 3
  /\ \E skip \in Valued(PriceMap) :
       /\ skip \in Range(PriceMap.slots_[2].offset_vec)
       /\ Len(get_topk_result_with_slot_data(PriceMap, 2, TRUE,
                                             SkipFilter({skip})).offsets) = 2
       /\ get_topk_result_with_slot_data(PriceMap, 1, FALSE, SkipFilter({skip})).scores
            # get_topk_result_with_slot_data(PriceMap, 1, FALSE, NoFilter).scores

\* -------------------------------------------- top-k around a centre (1-D)
Abs(x) == IF x < 0 THEN 0 - x ELSE x

\* a position in the slots: slot index and index in the slot, both 0-based
Pos(slot, offset) == [slot |-> slot, offset |-> offset]

\* "if (--offset_l == -1 && --slot_l != -1) offset_l = size - 1"
step_left(slots, l) ==
  IF l.offset - 1 # 0 - 1 THEN Pos(l.slot, l.offset - 1)
  ELSE IF l.slot - 1 # 0 - 1
  THEN Pos(l.slot - 1, Len(slots[l.slot].offset_vec) - 1)
  ELSE Pos(0 - 1, 0 - 1)

\* "if (++offset_r == size) slot_r++, offset_r = 0"
step_right(slots, r) ==
  IF r.offset + 1 = Len(slots[r.slot + 1].offset_vec) THEN Pos(r.slot + 1, 0)
  ELSE Pos(r.slot, r.offset + 1)

\* What the read of slots_[slots_.size()] can give: the element past the end
\* of the vector is not an object, the upper_bound over its value_vec is
\* undefined. StrayReads are the indexes it may come back with (0: as if the
\* stray value_vec were empty; 1: anything else).
StrayReads == {0, 1}

\* the lower and the upper bound of center1d in the slots; stray tells that
\* the upper bound was read past the end of slots_
center1d_bounds(slots, center1d, stray_read) ==
  IF slots[1].value_vec[1] > center1d
  THEN [l |-> Pos(0 - 1, 0), r |-> Pos(0, 0), stray |-> FALSE]
  ELSE IF slots[Len(slots)].value_vec[Len(slots[Len(slots)].value_vec)] < center1d
  THEN [l |-> Pos(Len(slots), 0), r |-> Pos(Len(slots), 0), stray |-> FALSE]
  ELSE LET back(s) == slots[s + 1].value_vec[Len(slots[s + 1].value_vec)]
           at_least == {s \in 0..(Len(slots) - 1) : back(s) >= center1d}
           slot_l == CHOOSE s \in at_least : \A t \in at_least : s <= t
           at_most == {s \in 0..(Len(slots) - 1) : back(s) <= center1d}
           slot_r == IF at_most = {} THEN 0
                     ELSE (CHOOSE s \in at_most : \A t \in at_most : s >= t) + 1
       IN [l |-> Pos(slot_l, lower_bound(slots[slot_l + 1].value_vec, center1d)),
           r |-> Pos(slot_r, IF slot_r = Len(slots) THEN stray_read
                             ELSE upper_bound(slots[slot_r + 1].value_vec, center1d)),
           stray |-> slot_r = Len(slots)]

\* a result of the routine: the RecallResult, or nothing defined when the
\* routine went on reading the stray slot
Defined(res) == [res |-> res, undefined |-> FALSE]

Undefined == [res |-> EmptyRecall, undefined |-> TRUE]

Take(res, slots, p) ==
  RecallResult(Append(res.offsets, slots[p.slot + 1].offset_vec[p.offset + 1]),
               Append(res.scores, slots[p.slot + 1].value_vec[p.offset + 1]))

Skipped(filter_func, slots, p) ==
  filter_func.has /\ slots[p.slot + 1].offset_vec[p.offset + 1] \in filter_func.skip

\* "add values between lower bound and upper bound"
RECURSIVE center1d_between(_, _, _, _, _, _)
center1d_between(slots, topk, filter_func, i, r, res) ==
  IF ~((i.slot < r.slot \/ (i.slot = r.slot /\ i.offset < r.offset))
        /\ Len(res.offsets) < topk)
  THEN Defined(res)
  ELSE IF i.slot >= Len(slots) THEN Undefined
  ELSE center1d_between(slots, topk, filter_func, step_right(slots, i), r,
                        IF Skipped(filter_func, slots, i) THEN res
                        ELSE Take(res, slots, i))

RECURSIVE skip_left(_, _, _)
skip_left(slots, filter_func, l) ==
  IF l.slot # 0 - 1 /\ Skipped(filter_func, slots, l)
  THEN skip_left(slots, filter_func, step_left(slots, l))
  ELSE l

RECURSIVE skip_right(_, _, _)
skip_right(slots, filter_func, r) ==
  IF r.slot # Len(slots) /\ Skipped(filter_func, slots, r)
  THEN skip_right(slots, filter_func, step_right(slots, r))
  ELSE r

\* "add values beyond lower bound and upper bound"
RECURSIVE center1d_beyond(_, _, _, _, _, _, _)
center1d_beyond(slots, topk, center1d, filter_func, l0, r0, res) ==
  IF ~(Len(res.offsets) < topk /\ (l0.slot # 0 - 1 \/ r0.slot # Len(slots)))
  THEN res
  ELSE LET l == skip_left(slots, filter_func, l0)
           r == skip_right(slots, filter_func, r0)
           left == center1d_beyond(slots, topk, center1d, filter_func,
                                   step_left(slots, l), r, Take(res, slots, l))
           right == center1d_beyond(slots, topk, center1d, filter_func,
                                    l, step_right(slots, r), Take(res, slots, r))
       IN IF l.slot = 0 - 1 /\ r.slot = Len(slots) THEN res
          ELSE IF l.slot # 0 - 1 /\ r.slot # Len(slots)
          THEN IF Abs(center1d - slots[l.slot + 1].value_vec[l.offset + 1])
                    <= Abs(center1d - slots[r.slot + 1].value_vec[r.offset + 1])
               THEN left ELSE right
          ELSE IF l.slot # 0 - 1 THEN left
          ELSE right

\* get_topk_result_with_slot_data_center1d (order_asc is not read); the
\* result for one outcome of the stray read
get_topk_result_with_slot_data_center1d(rm, topk, order_asc, center1d, filter_func, stray_read) ==
  IF rm.slots_ = <<>> THEN Defined(EmptyRecall)
  ELSE LET b == center1d_bounds(rm.slots_, center1d, stray_read)
           between == IF b.l.slot # 0 - 1
                      THEN center1d_between(rm.slots_, topk, filter_func, b.l, b.r,
                                            EmptyRecall)
                      ELSE Defined(EmptyRecall)
           l == IF b.l.slot # 0 - 1 THEN step_left(rm.slots_, b.l) ELSE b.l
       IN IF between.undefined THEN Undefined
          ELSE Defined(center1d_beyond(rm.slots_, topk, center1d, filter_func, l,
                                       b.r, between.res))
\* ------------------------------------------- top-k with further conditions
get_score_by_offset(rm, offset) ==
  IF offset < Len(rm.offset_to_value_) THEN rm.offset_to_value_[offset + 1]
  ELSE 0 - 99999999

kRangedMapSortMultiplier == 2

\* a condition of a sort: std::pair<RangedMapPtr, bool>
Condition(rm, order_asc) == [map |-> rm, asc |-> order_asc]

\* the first condition, from index i on, on which two offsets differ (0: none)
RECURSIVE first_differing(_, _, _, _)
first_differing(conditions, i, idx_l, idx_r) ==
  IF i > Len(conditions) THEN 0
  ELSE IF get_score_by_offset(conditions[i].map, idx_l)
            # get_score_by_offset(conditions[i].map, idx_r)
  THEN i
  ELSE first_differing(conditions, i + 1, idx_l, idx_r)

\* cond_func of sort_with_conditions, the map itself being the first of
\* the conditions: "(value_l > value_r) ^ order_asc" on the first difference
sort_cond_func(conditions, idx_l, idx_r) ==
  LET i == first_differing(conditions, 1, idx_l, idx_r)
  IN IF i = 0 THEN FALSE
     ELSE (get_score_by_offset(conditions[i].map, idx_l)
             > get_score_by_offset(conditions[i].map, idx_r)) # conditions[i].asc

\* std::sort by sort_cond_func. The order of offsets that are equivalent
\* under the comparison is unspecified; they are put in offset order here.
RECURSIVE std_sort(_, _)
std_sort(offsets, conditions) ==
  IF offsets = {} THEN <<>>
  ELSE LET first == CHOOSE o \in offsets :
                      \A p \in offsets :
                        /\ ~sort_cond_func(conditions, p, o)
                        /\ sort_cond_func(conditions, o, p) \/ o <= p
       IN <<first>> \o std_sort(offsets \ {first}, conditions)

sort_with_conditions(rm, offsets, topk, this_order_asc, conditions) ==
  LET sorted == std_sort(Range(offsets),
                         <<Condition(rm, this_order_asc)>> \o conditions)
      resized == SubSeq(sorted, 1, Min(Len(sorted), Max(topk, 0)))
  IN RecallResult(resized,
                  [i \in DOMAIN resized |-> get_score_by_offset(rm, resized[i])])

\* the inner loop of get_topk_result_with_slot_data_with_conditions over one
\* slot: st holds temp_offsets and last_score
RECURSIVE conditions_slot_loop(_, _, _, _, _, _, _)
conditions_slot_loop(slot, topk, max_size, this_order_asc, filter_func, offset_idx, st) ==
  IF offset_idx = (IF this_order_asc THEN Len(slot.offset_vec) ELSE 0 - 1) THEN st
  ELSE LET next == IF this_order_asc THEN offset_idx + 1 ELSE offset_idx - 1
           this_score == slot.value_vec[offset_idx + 1]
           temp_offsets == Append(st.temp_offsets, slot.offset_vec[offset_idx + 1])
       IN IF filter_func.has /\ slot.offset_vec[offset_idx + 1] \in filter_func.skip
          THEN conditions_slot_loop(slot, topk, max_size, this_order_asc, filter_func,
                                    next, st)
          ELSE IF Len(temp_offsets) >= max_size
          THEN [st EXCEPT !.temp_offsets = temp_offsets]
          ELSE IF Len(temp_offsets) > Max(topk, 1) /\ st.last_score # this_score
          THEN [st EXCEPT !.temp_offsets = temp_offsets]
          ELSE conditions_slot_loop(slot, topk, max_size, this_order_asc, filter_func,
                                    next, [temp_offsets |-> temp_offsets,
                                           last_score |-> this_score])

\* the outer loop: slot_idx counts up from 0 in both directions (slot_from,
\* slot_to are set and never read)
RECURSIVE conditions_slots_loop(_, _, _, _, _, _, _)
conditions_slots_loop(slots, topk, max_size, this_order_asc, filter_func, slot_idx, st) ==
  IF ~(slot_idx < Len(slots) /\ Len(st.temp_offsets) < max_size) THEN st
  ELSE conditions_slots_loop(
         slots, topk, max_size, this_order_asc, filter_func, slot_idx + 1,
         conditions_slot_loop(slots[slot_idx + 1], topk, max_size, this_order_asc,
                              filter_func,
                              IF this_order_asc THEN 0
                              ELSE Len(slots[slot_idx + 1].offset_vec) - 1,
                              st))

get_topk_result_with_slot_data_with_conditions(rm, topk, this_order_asc, filter_func, conditions) ==
  sort_with_conditions(
    rm,
    conditions_slots_loop(rm.slots_, topk, topk * kRangedMapSortMultiplier,
                          this_order_asc, filter_func, 0,
                          [temp_offsets |-> <<>>, last_score |-> 0]).temp_offsets,
    topk, this_order_asc, conditions)
\* ================================================================= SorterOp
\* A sorter document: "op", "field" (a string or an array of strings),
\* "order" (a string or an array of strings), "center" (a double), "topk"
\* (an int) and "type" (a string). Numbers stand for themselves.
JArr(items) == [t |-> "array", a |-> items]

kOrderDescStr == "desc"

kOrderAscStr == "asc"

kTypeCenter1d == "center1d"

load_json_doc_load_fields(doc) ==
  IF "field" \notin DOMAIN doc THEN [ret |-> 0 - 104, fields |-> <<>>]
  ELSE IF doc.field.t = "string" THEN [ret |-> 0, fields |-> <<doc.field.s>>]
  ELSE IF doc.field.t = "array"
  THEN IF Len(doc.field.a) <= 0 THEN [ret |-> 0 - 102, fields |-> <<>>]
       ELSE [ret |-> 0, fields |-> doc.field.a]
  ELSE [ret |-> 0 - 103, fields |-> <<>>]

load_json_doc_load_order_ascs(doc) ==
  LET known(s) == s \in {kOrderDescStr, kOrderAscStr}
  IN IF "order" \notin DOMAIN doc THEN [ret |-> 0, order_ascs |-> <<>>]
     ELSE IF doc.order.t = "string"
     THEN IF known(doc.order.s)
          THEN [ret |-> 0, order_ascs |-> <<doc.order.s = kOrderAscStr>>]
          ELSE [ret |-> 0 - 201, order_ascs |-> <<>>]
     ELSE IF doc.order.t = "array"
     THEN IF \A i \in DOMAIN doc.order.a : known(doc.order.a[i])
          THEN [ret |-> 0,
                order_ascs |-> [i \in DOMAIN doc.order.a |->
                                  doc.order.a[i] = kOrderAscStr]]
          ELSE [ret |-> 0 - 203, order_ascs |-> <<>>]
     ELSE [ret |-> 0 - 204, order_ascs |-> <<>>]

load_json_doc_load_centers(doc) ==
  IF "center" \in DOMAIN doc THEN <<doc.center>> ELSE <<>>

load_json_doc_load_topk(doc) == IF "topk" \in DOMAIN doc THEN doc.topk ELSE 0

load_json_doc_load_type(doc) ==
  IF "type" \notin DOMAIN doc THEN [ret |-> 0, type |-> "SORT_SINGLE_1D"]
  ELSE IF doc.type.t # "string" THEN [ret |-> 0 - 501, type |-> "SORT_SINGLE_1D"]
  ELSE IF doc.type.s = kTypeCenter1d THEN [ret |-> 0, type |-> "SORT_CENTER_1D"]
  ELSE [ret |-> 0 - 502, type |-> "SORT_SINGLE_1D"]

\* load_json_doc_validate: the return code, and type_, order_ascs_ and
\* center1d_ as it leaves them
load_json_doc_validate(type, fields, order_ascs, centers) ==
  IF type = "SORT_CENTER_1D"
  THEN IF Len(fields) # 1 THEN [ret |-> 0 - 601]
       ELSE IF Len(order_ascs) > 1 THEN [ret |-> 0 - 602]
       ELSE IF Len(order_ascs) = 1 /\ ~order_ascs[1] THEN [ret |-> 0 - 603]
       ELSE IF Len(centers) # 1 THEN [ret |-> 0 - 604]
       ELSE [ret |-> 0, type_ |-> type, order_ascs_ |-> <<TRUE>>,
             center1d_ |-> centers[1]]
  ELSE IF Len(fields) = 1
  THEN IF Len(order_ascs) > 1 THEN [ret |-> 0 - 610]
       ELSE [ret |-> 0, type_ |-> "SORT_SINGLE_1D",
             order_ascs_ |-> IF Len(order_ascs) = 0 THEN <<FALSE>> ELSE order_ascs,
             center1d_ |-> 0]
  ELSE IF Len(order_ascs) \notin {0, 1, Len(fields)} THEN [ret |-> 0 - 611]
  ELSE [ret |-> 0, type_ |-> "SORT_MULTI_SINGLE_1D",
        order_ascs_ |-> [i \in DOMAIN fields |->
                           IF Len(order_ascs) = 0 THEN FALSE
                           ELSE IF Len(order_ascs) = 1 THEN order_ascs[1]
                           ELSE order_ascs[i]],
        center1d_ |-> 0]

\* SorterOp::load_json_doc, as parse_sorter_json_doc uses it: the op, or
\* NullOp when the return code is not 0
SorterOp_load_json_doc(doc) ==
  LET f == load_json_doc_load_fields(doc)
      o == load_json_doc_load_order_ascs(doc)
      t == load_json_doc_load_type(doc)
      v == load_json_doc_validate(t.type, f.fields, o.order_ascs,
                                  load_json_doc_load_centers(doc))
  IN IF f.ret # 0 \/ o.ret # 0 \/ t.ret # 0 THEN NullOp
     ELSE IF v.ret # 0 THEN NullOp
     ELSE [null |-> FALSE, op_name |-> "sort", valid_ |-> TRUE,
           fields_ |-> f.fields, order_ascs_ |-> v.order_ascs_,
           topk_ |-> load_json_doc_load_topk(doc), type_ |-> v.type_,
           center1d_ |-> v.center1d_]

NullRecall == [null |-> TRUE, offsets |-> <<>>, scores |-> <<>>]

kSmallBitmapSize == 10000

\* ratio < 0.005, in integers
is_small_ratio_bitmap(fs, valid_size) ==
  \/ valid_size < kSmallBitmapSize
  \/ valid_size * 1000 < 5 * (1 + fs.element_size_)

get_rangedmap_ptr(fs, field) ==
  IF field \notin DOMAIN fs.field_bitmap_groups_map_
  THEN [null |-> TRUE, obj |-> RangedMapInit]
  ELSE fs.field_bitmap_groups_map_[field].rangedmap_ptr_

\* FieldBitmapGroupSet::get_topk_result, get_topk_result_center1d and
\* get_topk_result_with_conditions with the calls of the group below them
FieldBitmapGroupSet_get_topk_result(fs, field, topk, order_asc, filter_func) ==
  IF get_rangedmap_ptr(fs, field).null THEN NullRecall
  ELSE get_topk_result_with_slot_data(get_rangedmap_ptr(fs, field).obj, topk,
                                      order_asc, filter_func)

FieldBitmapGroupSet_get_topk_result_center1d(fs, field, topk, order_asc, center1d, filter_func, stray_read) ==
  IF get_rangedmap_ptr(fs, field).null THEN Defined(NullRecall)
  ELSE get_topk_result_with_slot_data_center1d(get_rangedmap_ptr(fs, field).obj,
                                               topk, order_asc, center1d,
                                               filter_func, stray_read)

FieldBitmapGroupSet_get_topk_result_with_conditions(fs, fields, topk, order_ascs, filter_func) ==
  IF \E i \in DOMAIN fields : get_rangedmap_ptr(fs, fields[i]).null THEN NullRecall
  ELSE get_topk_result_with_slot_data_with_conditions(
         get_rangedmap_ptr(fs, fields[1]).obj, topk, order_ascs[1], filter_func,
         [i \in 1..(Len(fields) - 1) |->
            Condition(get_rangedmap_ptr(fs, fields[i + 1]).obj, order_ascs[i + 1])])

\* SorterOp::calc_topk_result(field_group_set_ptr, filter)
SorterOp_calc_topk_result_filter(op, fs, filter_func, stray_read) ==
  IF ~op.valid_ THEN Defined(NullRecall)
  ELSE IF op.type_ = "SORT_SINGLE_1D"
  THEN Defined(FieldBitmapGroupSet_get_topk_result(fs, op.fields_[1], op.topk_,
                                                  op.order_ascs_[1], filter_func))
  ELSE IF op.type_ = "SORT_MULTI_SINGLE_1D"
  THEN Defined(FieldBitmapGroupSet_get_topk_result_with_conditions(
                fs, op.fields_, op.topk_, op.order_ascs_, filter_func))
  ELSE FieldBitmapGroupSet_get_topk_result_center1d(
         fs, op.fields_[1], op.topk_, op.order_ascs_[1], op.center1d_, filter_func,
         stray_read)

\* cond_func of _calc_topk_result_with_small_bitmap
small_cond_func(op, conditions, idx_l, idx_r) ==
  IF op.type_ = "SORT_CENTER_1D"
  THEN LET value_l == get_score_by_offset(conditions[1].map, idx_l)
           value_r == get_score_by_offset(conditions[1].map, idx_r)
       IN IF Abs(value_l - op.center1d_) # Abs(value_r - op.center1d_)
          THEN (Abs(value_l - op.center1d_) > Abs(value_r - op.center1d_))
                 # conditions[1].asc
          ELSE value_l > value_r
  ELSE LET i == first_differing(conditions, 1, idx_l, idx_r)
       IN IF i = 0 THEN FALSE
          ELSE (get_score_by_offset(conditions[i].map, idx_l)
                  < get_score_by_offset(conditions[i].map, idx_r)) # conditions[i].asc

\* search_k times top() and pop() of the priority_queue: the top is an offset
\* that cond_func puts before no other one. Which of several equivalent
\* offsets is on top is unspecified; the smallest one is taken here.
RECURSIVE que_pops(_, _, _, _)
que_pops(op, conditions, que, search_k) ==
  IF search_k = 0 THEN <<>>
  ELSE LET top == CHOOSE o \in que :
                    \A p \in que :
                      /\ ~small_cond_func(op, conditions, o, p)
                      /\ small_cond_func(op, conditions, p, o) \/ o <= p
       IN <<top>> \o que_pops(op, conditions, que \ {top}, search_k - 1)

\* SorterOp::_calc_topk_result_with_small_bitmap, for a topk_ that is not
\* negative
calc_topk_result_with_small_bitmap(op, fs, valid_bitmap, filter_func) ==
  IF \E i \in DOMAIN op.fields_ : get_rangedmap_ptr(fs, op.fields_[i]).null
  THEN NullRecall
  ELSE LET conditions == [i \in DOMAIN op.fields_ |->
                            Condition(get_rangedmap_ptr(fs, op.fields_[i]).obj,
                                      op.order_ascs_[i])]
           all_valid_offset == IF filter_func.has
                               THEN valid_bitmap.bits \ filter_func.skip
                               ELSE valid_bitmap.bits
           search_k == Min(Max(1, op.topk_), Cardinality(all_valid_offset))
           collected_offsets == que_pops(op, conditions, all_valid_offset, search_k)
       IN RecallResult(collected_offsets,
                       [j \in DOMAIN collected_offsets |->
                          get_score_by_offset(conditions[1].map, collected_offsets[j])])

\* the filter_func of calc_topk_result over a bitmap: true off the bitmap
OffBitmap(valid_bitmap) == SkipFilter((0..(MaxOffset + 1)) \ valid_bitmap.bits)

\* SorterOp::calc_topk_result(field_group_set_ptr, valid_bitmap)
SorterOp_calc_topk_result(op, fs, valid_bitmap, stray_read) ==
  IF valid_bitmap.null
  THEN SorterOp_calc_topk_result_filter(op, fs, SkipFilter({}), stray_read)
  ELSE IF is_small_ratio_bitmap(fs, Cardinality(valid_bitmap.bits))
  THEN Defined(calc_topk_result_with_small_bitmap(op, fs, valid_bitmap,
                                                 OffBitmap(valid_bitmap)))
  ELSE SorterOp_calc_topk_result_filter(op, fs, OffBitmap(valid_bitmap), stray_read)
\* ---------------------------------------------------------------------
\* a centred sort over the field of SpecRanged
CenterDoc(center1d, topk) ==
  [op |-> JStr("sort"), field |-> JStr("price"), type |-> JStr(kTypeCenter1d),
   center |-> center1d, topk |-> topk]

\* res holds the topk offsets of pass that are nearest to the centre, in
\* order of increasing distance, the smaller value first at equal distance
IsNearest(res, rm, pass, topk, center1d) ==
  /\ Len(res.offsets) = Min(topk, Cardinality(pass))
  /\ Len(res.scores) = Len(res.offsets)
  /\ Cardinality(Range(res.offsets)) = Len(res.offsets)
  /\ Range(res.offsets) \subseteq pass
  /\ \A i \in DOMAIN res.offsets : res.scores[i] = rm.offset_to_value_[res.offsets[i] + 1]
  /\ \A i \in DOMAIN res.scores : \A j \in DOMAIN res.scores :
       i < j => \/ Abs(res.scores[i] - center1d) < Abs(res.scores[j] - center1d)
                \/ /\ Abs(res.scores[i] - center1d) = Abs(res.scores[j] - center1d)
                   /\ res.scores[i] <= res.scores[j]
  /\ \A o \in pass \ Range(res.offsets) : \A i \in DOMAIN res.scores :
       Abs(rm.offset_to_value_[o + 1] - center1d) >= Abs(res.scores[i] - center1d)

\* C22: for every center value, values below the smallest stored value and
\* equal to or above the largest stored value included, top_k_center_1d
\* returns the k filter-passing offsets with the smallest |v - center|, in
\* order of increasing distance with ties broken by increasing value: so does
\* the routine of the RangedMap, whatever the filter function, and so does the
\* sorter of type center1d, without a filter bitmap and with one.
C22_CenterNearest ==
  /\ \A topk \in TopkSizes, center1d \in BoundValues, filter_func \in TopkFilters,
        stray_read \in StrayReads :
       \A r \in {get_topk_result_with_slot_data_center1d(PriceMap, topk, TRUE, center1d,
                                                         filter_func, stray_read)} :
         /\ ~r.undefined
         /\ IsNearest(r.res, PriceMap, Passing(PriceMap, filter_func), topk, center1d)
  /\ \A topk \in 1..(MaxOffset + 1), center1d \in BoundValues,
        valid_bitmap \in {NullBitmap} \cup {Temp(bits) : bits \in SUBSET Valued(PriceMap)},
        stray_read \in StrayReads :
       \A r \in {SorterOp_calc_topk_result(SorterOp_load_json_doc(CenterDoc(center1d, topk)),
                                           scalar_index_, valid_bitmap, stray_read)} :
         /\ ~r.undefined
         /\ IsNearest(r.res, PriceMap,
                      IF valid_bitmap.null THEN Valued(PriceMap) ELSE valid_bitmap.bits,
                      topk, center1d)

\* ================================================================ SpecSort
\* A scalar index over two numeric fields, written directly: every record
\* carries a price and a rank.
SortMeta == [f \in {"price", "rank"} |-> "float32"]

InitSort ==
  /\ vector_index_ = BruteforceSearchInit(FALSE)
  /\ scalar_index_ = FieldBitmapGroupSetInit(SortMeta)
  /\ rw_mutex_ = [exclusive |-> NoThread, shared |-> {}]
  /\ pc = [t \in Threads |-> "idle"]
  /\ acc = [t \in Readers |-> {}]
  /\ batch = [i |-> 0, n |-> 0, has_update |-> FALSE]
  /\ assigned = EmptyMap
  /\ moved = FALSE
  /\ manager_meta_ = ManagerMetaInit

\* the ranks of the records
Ranks == 0..1

SortFieldsOf(price, rank) ==
  [str_kv_map_ |-> EmptyMap,
   dbl_kv_map_ |-> [f \in {"price", "rank"} |-> IF f = "price" THEN price ELSE rank]]

\* ScalarIndex::add_row_data with a price and a rank and no old fields
SortAdd(offset, price, rank) ==
  /\ scalar_index_' = add_row_data(scalar_index_, offset, SortFieldsOf(price, rank),
                                   NoFields)
  /\ UNCHANGED <<vector_index_, rw_mutex_, pc, acc, batch, assigned, moved, manager_meta_>>

\* ScalarIndex::delete_row_data of a record (the values handed in are not
\* looked at)
SortDelete(offset) ==
  /\ scalar_index_' = delete_row_data(scalar_index_, offset, SortFieldsOf(0, 0))
  /\ UNCHANGED <<vector_index_, rw_mutex_, pc, acc, batch, assigned, moved, manager_meta_>>

NextSort ==
  \/ \E o \in 0..(MaxOffset - 1), v \in Values, w \in Ranks : SortAdd(o, v, w)
  \/ \E o \in 0..(MaxOffset - 1) : SortDelete(o)

SpecSort == InitSort /\ [][NextSort]_vars

\* the RangedMap of a field of SpecSort
MapOf(field) == get_rangedmap_ptr(scalar_index_, field).obj

\* a sort by price, then by rank
MultiDoc(price_order, rank_order, topk) ==
  [op |-> JStr("sort"), field |-> JArr(<<"price", "rank">>),
   order |-> JArr(<<price_order, rank_order>>), topk |-> topk]

\* offset o comes strictly before offset p in the order of the fields
Before(fields, order_ascs, o, p) ==
  \E i \in DOMAIN fields :
    /\ \A j \in 1..(i - 1) :
         MapOf(fields[j]).offset_to_value_[o + 1] = MapOf(fields[j]).offset_to_value_[p + 1]
    /\ IF order_ascs[i]
       THEN MapOf(fields[i]).offset_to_value_[o + 1] < MapOf(fields[i]).offset_to_value_[p + 1]
       ELSE MapOf(fields[i]).offset_to_value_[o + 1] > MapOf(fields[i]).offset_to_value_[p + 1]

\* res holds the first topk offsets of pass in the order of the fields
IsFirstInOrder(res, fields, order_ascs, pass, topk) ==
  /\ Len(res.offsets) = Min(topk, Cardinality(pass))
  /\ Len(res.scores) = Len(res.offsets)
  /\ Cardinality(Range(res.offsets)) = Len(res.offsets)
  /\ Range(res.offsets) \subseteq pass
  /\ \A i \in DOMAIN res.offsets :
       res.scores[i] = MapOf(fields[1]).offset_to_value_[res.offsets[i] + 1]
  /\ \A i \in DOMAIN res.offsets : \A j \in DOMAIN res.offsets :
       i < j => ~Before(fields, order_ascs, res.offsets[j], res.offsets[i])
  /\ \A o \in pass \ Range(res.offsets) : \A i \in DOMAIN res.offsets :
       ~Before(fields, order_ascs, o, res.offsets[i])

SortOrders == {kOrderAscStr, kOrderDescStr}

\* C23: a multi-field sort with limit k returns the first k of all
\* filter-passing offsets ordered lexicographically by (primary value, second
\* field value), each field in its own ascending or descending direction, for
\* both directions of the primary order and for every number of candidates
\* that share a primary value: without a filter bitmap and with one.
C23_MultiFieldOrder ==
  \A price_order \in SortOrders, rank_order \in SortOrders, topk \in 1..(MaxOffset + 1),
     valid_bitmap \in {NullBitmap}
                        \cup {Temp(bits) : bits \in SUBSET Valued(MapOf("price"))} :
    \A r \in {SorterOp_calc_topk_result(
                SorterOp_load_json_doc(MultiDoc(price_order, rank_order, topk)),
                scalar_index_, valid_bitmap, 0)} :
      IsFirstInOrder(r.res, <<"price", "rank">>,
                     <<price_order = kOrderAscStr, rank_order = kOrderAscStr>>,
                     IF valid_bitmap.null THEN Valued(MapOf("price")) ELSE valid_bitmap.bits,
                     topk)

\* ===================================================== Bitmap: operations
\* Bitmap::clear (nbit_cache_ keeps its value, the flag is dropped)
Bitmap_clear(bm) ==
  [bm EXCEPT !.roaring_ = {}, !.set_ = {}, !.is_roaring_ = FALSE,
             !.has_nbit_cache_ = FALSE]

Bitmap_Isset(bm, id) == IF bm.is_roaring_ THEN id \in bm.roaring_ ELSE id \in bm.set_

\* Bitmap::nbit
Bitmap_nbit(bm) ==
  IF bm.is_roaring_ THEN Cardinality(bm.roaring_) ELSE Cardinality(bm.set_)

\* Bitmap::get_cached_nbit: the Bitmap after the call and the number returned
Bitmap_get_cached_nbit(bm) ==
  IF ~bm.has_nbit_cache_
  THEN [bm |-> [bm EXCEPT !.nbit_cache_ = Bitmap_nbit(bm), !.has_nbit_cache_ = TRUE],
        nbit |-> Bitmap_nbit(bm)]
  ELSE [bm |-> bm, nbit |-> bm.nbit_cache_]

\* Bitmap::get_set_list: the ids in ascending order
Bitmap_get_set_list(bm) ==
  IF bm.is_roaring_ THEN SortedSeq(bm.roaring_) ELSE SortedSeq(bm.set_)

\* roaring addRange(x, y) adds the ids of [x, y)
Bitmap_SetRange(bm, x, y) ==
  [Bitmap_to_roaring(bm) EXCEPT !.roaring_ = @ \cup {id \in x..(y - 1) : TRUE},
                                !.has_nbit_cache_ = FALSE]

\* Bitmap::to_set
Bitmap_to_set(bm) ==
  IF bm.is_roaring_
  THEN [Bitmap_clear(bm) EXCEPT !.set_ = Range(Bitmap_get_set_list(bm)),
                                !.is_roaring_ = FALSE]
  ELSE bm

\* the loop "for id in other.set_: Set(id)" of Union
RECURSIVE union_set_loop(_, _)
union_set_loop(bm, ids) ==
  IF ids = <<>> THEN bm ELSE union_set_loop(Bitmap_Set(bm, Head(ids)), Tail(ids))

\* Bitmap::Union(const Bitmap&)
Bitmap_Union(bm, other) ==
  LET done == IF other.is_roaring_
              THEN [Bitmap_to_roaring(bm) EXCEPT !.roaring_ = @ \cup other.roaring_]
              ELSE union_set_loop(bm, SortedSeq(other.set_))
  IN [done EXCEPT !.has_nbit_cache_ = FALSE]

\* the loop "for id in other.set_: Unset(id)" of Exclude
RECURSIVE exclude_set_loop(_, _)
exclude_set_loop(bm, ids) ==
  IF ids = <<>> THEN bm ELSE exclude_set_loop(Bitmap_Unset(bm, Head(ids)), Tail(ids))

\* Bitmap::Exclude(const Bitmap&): with both operands in roaring it returns
\* before the line that drops the cache flag
Bitmap_Exclude(bm, other) ==
  IF bm.is_roaring_ /\ other.is_roaring_
  THEN [bm EXCEPT !.roaring_ = @ \ other.roaring_]
  ELSE IF ~other.is_roaring_
  THEN [exclude_set_loop(bm, SortedSeq(other.set_)) EXCEPT !.has_nbit_cache_ = FALSE]
  ELSE [bm EXCEPT !.set_ = {id \in @ : ~Bitmap_Isset(other, id)},
                  !.has_nbit_cache_ = FALSE]

\* Intersect with the branches of self in roaring and other a set exchanged
Bitmap_Intersect_KeepSelf(bm, other) ==
  IF bm.is_roaring_ /\ other.is_roaring_
  THEN [bm EXCEPT !.roaring_ = @ \cap other.roaring_]
  ELSE IF bm.is_roaring_
  THEN [bm EXCEPT !.has_nbit_cache_ = FALSE]
  ELSE [bm EXCEPT !.set_ = {id \in @ : Bitmap_Isset(other, id)},
                  !.has_nbit_cache_ = FALSE]

\* Bitmap::Intersect(const Bitmap&): with both operands in roaring it returns
\* before the line that drops the cache flag
Bitmap_Intersect(bm, other) ==
  IF bm.is_roaring_ /\ other.is_roaring_
  THEN [bm EXCEPT !.roaring_ = @ \cap other.roaring_]
  ELSE IF bm.is_roaring_
  THEN [Bitmap_clear(bm) EXCEPT !.set_ = {id \in other.set_ : Bitmap_Isset(bm, id)},
                                !.is_roaring_ = FALSE, !.has_nbit_cache_ = FALSE]
  ELSE [bm EXCEPT !.set_ = {id \in @ : Bitmap_Isset(other, id)},
                  !.has_nbit_cache_ = FALSE]

\* roaring operator^=
roaring_xor(r, s) == (r \ s) \cup (s \ r)

\* Bitmap::Xor(const Bitmap&)
Bitmap_Xor(bm, other) ==
  [Bitmap_to_roaring(bm) EXCEPT
     !.roaring_ = roaring_xor(@, IF other.is_roaring_ THEN other.roaring_
                                 ELSE other.set_),
     !.has_nbit_cache_ = FALSE]

\* a const Bitmap*: nullptr or a Bitmap
NullPtr == [null |-> TRUE, obj |-> BitmapInit]

PtrTo(bm) == [null |-> FALSE, obj |-> bm]

\* Bitmap::Union(const Bitmap*)
Bitmap_Union_ptr(bm, pother) ==
  IF pother.null THEN bm
  ELSE [Bitmap_Union(bm, pother.obj) EXCEPT !.has_nbit_cache_ = FALSE]

\* Bitmap::Exclude(const Bitmap*)
Bitmap_Exclude_ptr(bm, pother) ==
  IF pother.null THEN bm
  ELSE [Bitmap_Exclude(bm, pother.obj) EXCEPT !.has_nbit_cache_ = FALSE]

\* Bitmap::Intersect(const Bitmap*)
Bitmap_Intersect_ptr(bm, pother) ==
  IF pother.null THEN bm
  ELSE [Bitmap_Intersect(bm, pother.obj) EXCEPT !.has_nbit_cache_ = FALSE]

\* Bitmap::Xor(const Bitmap*)
Bitmap_Xor_ptr(bm, pother) ==
  IF pother.null THEN bm
  ELSE [Bitmap_Xor(bm, pother.obj) EXCEPT !.has_nbit_cache_ = FALSE]

\* roaring write: the portable form lists the ids in ascending order
roaring_write(r) == SortedSeq(r)

\* roaring read
roaring_read(s) == Range(s)

\* Bitmap::SerializeToString: the Bitmap after the call (it is converted in
\* place) and the string
Bitmap_SerializeToString(bm) ==
  [bm |-> Bitmap_to_roaring(bm), s |-> roaring_write(Bitmap_to_roaring(bm).roaring_)]

\* Bitmap::ParseFromString
Bitmap_ParseFromString(bm, s) ==
  LET read == [Bitmap_clear(bm) EXCEPT !.is_roaring_ = TRUE, !.roaring_ = roaring_read(s)]
      done == IF Cardinality(read.roaring_) <= kSetThreshold THEN Bitmap_to_set(read)
              ELSE read
  IN [done EXCEPT !.has_nbit_cache_ = FALSE]

\* ------------------------------------------------- Bitmap objects alone
\* Two Bitmap objects, A and B, that a caller mutates through the public
\* member functions; scalar_index_ holds them by name.
BitmapNames == {"A", "B"}

\* the ids the caller uses
BitmapIds == 0..(MaxOffset - 1)

InitBitmap ==
  /\ vector_index_ = BruteforceSearchInit(FALSE)
  /\ scalar_index_ = [n \in BitmapNames |-> BitmapInit]
  /\ rw_mutex_ = [exclusive |-> NoThread, shared |-> {}]
  /\ pc = [t \in Threads |-> "idle"]
  /\ acc = [t \in Readers |-> {}]
  /\ batch = [i |-> 0, n |-> 0, has_update |-> FALSE]
  /\ assigned = EmptyMap
  /\ moved = FALSE
  /\ manager_meta_ = ManagerMetaInit

\* the object named n becomes bm
BitmapBecomes(n, bm) ==
  /\ scalar_index_' = [scalar_index_ EXCEPT ![n] = bm]
  /\ UNCHANGED <<vector_index_, rw_mutex_, pc, acc, batch, assigned, moved, manager_meta_>>

BmSet(n, id) == BitmapBecomes(n, Bitmap_Set(scalar_index_[n], id))

BmUnset(n, id) == BitmapBecomes(n, Bitmap_Unset(scalar_index_[n], id))

BmSetRange(n, x, y) == BitmapBecomes(n, Bitmap_SetRange(scalar_index_[n], x, y))

BmClear(n) == BitmapBecomes(n, Bitmap_clear(scalar_index_[n]))

BmGetCachedNbit(n) == BitmapBecomes(n, Bitmap_get_cached_nbit(scalar_index_[n]).bm)

\* the overload taking a reference (by_ptr = FALSE) or a pointer
BmUnion(n, m, by_ptr) ==
  BitmapBecomes(n, IF by_ptr THEN Bitmap_Union_ptr(scalar_index_[n], PtrTo(scalar_index_[m]))
                   ELSE Bitmap_Union(scalar_index_[n], scalar_index_[m]))

BmExclude(n, m, by_ptr) ==
  BitmapBecomes(n, IF by_ptr THEN Bitmap_Exclude_ptr(scalar_index_[n], PtrTo(scalar_index_[m]))
                   ELSE Bitmap_Exclude(scalar_index_[n], scalar_index_[m]))

BmIntersect(n, m, by_ptr) ==
  BitmapBecomes(n, IF by_ptr THEN Bitmap_Intersect_ptr(scalar_index_[n], PtrTo(scalar_index_[m]))
                   ELSE Bitmap_Intersect(scalar_index_[n], scalar_index_[m]))

BmXor(n, m, by_ptr) ==
  BitmapBecomes(n, IF by_ptr THEN Bitmap_Xor_ptr(scalar_index_[n], PtrTo(scalar_index_[m]))
                   ELSE Bitmap_Xor(scalar_index_[n], scalar_index_[m]))

\* SerializeToString of the object (the string is dropped)
BmSerialize(n) == BitmapBecomes(n, Bitmap_SerializeToString(scalar_index_[n]).bm)

\* ParseFromString of a string that SerializeToString wrote for the ids
BmParse(n, ids) == BitmapBecomes(n, Bitmap_ParseFromString(scalar_index_[n], roaring_write(ids)))

NextBitmap ==
  \/ \E n \in BitmapNames, id \in BitmapIds : BmSet(n, id)
  \/ \E n \in BitmapNames, id \in BitmapIds : BmUnset(n, id)
  \/ \E n \in BitmapNames, x \in BitmapIds, y \in 0..MaxOffset : BmSetRange(n, x, y)
  \/ \E n \in BitmapNames : BmClear(n)
  \/ \E n \in BitmapNames : BmGetCachedNbit(n)
  \/ \E n \in BitmapNames : \E m \in BitmapNames \ {n}, by_ptr \in BOOLEAN : BmUnion(n, m, by_ptr)
  \/ \E n \in BitmapNames : \E m \in BitmapNames \ {n}, by_ptr \in BOOLEAN : BmExclude(n, m, by_ptr)
  \/ \E n \in BitmapNames : \E m \in BitmapNames \ {n}, by_ptr \in BOOLEAN : BmIntersect(n, m, by_ptr)
  \/ \E n \in BitmapNames : \E m \in BitmapNames \ {n}, by_ptr \in BOOLEAN : BmXor(n, m, by_ptr)
  \/ \E n \in BitmapNames : BmSerialize(n)
  \/ \E n \in BitmapNames, ids \in SUBSET BitmapIds : BmParse(n, ids)

SpecBitmap == InitBitmap /\ [][NextBitmap]_vars

\* C26: after any sequence of Bitmap mutations (Set, Unset, SetRange, Union,
\* Intersect, Exclude, Xor, clear, ParseFromString), whatever the
\* representation of the object and of the other operand, get_cached_nbit
\* returns the number of ids that get_set_list returns.
C26_CachedNbitExact ==
  \A n \in BitmapNames :
    Bitmap_get_cached_nbit(scalar_index_[n]).nbit
      = Len(Bitmap_get_set_list(scalar_index_[n]))

\* Bitmap::copy
Bitmap_copy(bm, other) ==
  [bm EXCEPT !.roaring_ = other.roaring_, !.set_ = other.set_,
             !.is_roaring_ = other.is_roaring_, !.has_nbit_cache_ = FALSE]

\* a third operand: every set of ids, held as a small set or in roaring
ThirdOperands ==
  {union_set_loop(BitmapInit, SortedSeq(ids)) : ids \in SUBSET BitmapIds}
  \cup {Bitmap_SetMany(Bitmap_SetRange(BitmapInit, 0, 0), ids) : ids \in SUBSET BitmapIds}

\* every operation on a and b leaves the ids of the mathematical operation
OpsExact(a, b) ==
  /\ Bitmap_ids(Bitmap_Union(a, b)) = Bitmap_ids(a) \cup Bitmap_ids(b)
  /\ Bitmap_ids(Bitmap_Union_ptr(a, PtrTo(b))) = Bitmap_ids(a) \cup Bitmap_ids(b)
  /\ Bitmap_ids(Bitmap_Intersect(a, b)) = Bitmap_ids(a) \cap Bitmap_ids(b)
  /\ Bitmap_ids(Bitmap_Intersect_ptr(a, PtrTo(b))) = Bitmap_ids(a) \cap Bitmap_ids(b)
  /\ Bitmap_ids(Bitmap_Exclude(a, b)) = Bitmap_ids(a) \ Bitmap_ids(b)
  /\ Bitmap_ids(Bitmap_Exclude_ptr(a, PtrTo(b))) = Bitmap_ids(a) \ Bitmap_ids(b)
  /\ Bitmap_ids(Bitmap_Xor(a, b))
       = (Bitmap_ids(a) \ Bitmap_ids(b)) \cup (Bitmap_ids(b) \ Bitmap_ids(a))
  /\ Bitmap_ids(Bitmap_Xor_ptr(a, PtrTo(b)))
       = (Bitmap_ids(a) \ Bitmap_ids(b)) \cup (Bitmap_ids(b) \ Bitmap_ids(a))
  /\ \A id \in BitmapIds :
       /\ Bitmap_ids(Bitmap_Set(a, id)) = Bitmap_ids(a) \cup {id}
       /\ Bitmap_ids(Bitmap_Unset(a, id)) = Bitmap_ids(a) \ {id}
       /\ Bitmap_Isset(a, id) <=> id \in Range(Bitmap_get_set_list(a))
  /\ \A x \in BitmapIds, y \in 0..MaxOffset :
       Bitmap_ids(Bitmap_SetRange(a, x, y))
         = Bitmap_ids(a) \cup {id \in BitmapIds : x <= id /\ id < y}
  /\ Bitmap_ids(Bitmap_clear(a)) = {}
  /\ Bitmap_ids(Bitmap_ParseFromString(b, Bitmap_SerializeToString(a).s)) = Bitmap_ids(a)
  /\ Bitmap_ids(Bitmap_SerializeToString(a).bm) = Bitmap_ids(a)

\* the laws of union, intersection and difference on a, b and c
LawsHold(a, b, c) ==
  /\ Bitmap_ids(Bitmap_Union(a, b)) = Bitmap_ids(Bitmap_Union(b, a))
  /\ Bitmap_ids(Bitmap_Intersect(a, b)) = Bitmap_ids(Bitmap_Intersect(b, a))
  /\ Bitmap_ids(Bitmap_Union(Bitmap_Union(a, b), c))
       = Bitmap_ids(Bitmap_Union(a, Bitmap_Union(b, c)))
  /\ Bitmap_ids(Bitmap_Intersect(Bitmap_Intersect(a, b), c))
       = Bitmap_ids(Bitmap_Intersect(a, Bitmap_Intersect(b, c)))
  /\ Bitmap_ids(Bitmap_Exclude(a, Bitmap_copy(BitmapInit, a))) = {}
  /\ Bitmap_ids(Bitmap_Union(a, Bitmap_Intersect(b, a))) = Bitmap_ids(a)

\* C27: for every Bitmap operation and every combination of representations
\* of its operands (small set or roaring) the ids of the result are those of
\* the mathematical set operation on the ids of the operands; union and
\* intersect are commutative and associative, A minus (a copy of) A is
\* empty, and A union (B intersect A) is A.
C27_RepresentationTransparent ==
  \A n \in BitmapNames : \A m \in BitmapNames \ {n} :
    /\ OpsExact(scalar_index_[n], scalar_index_[m])
    /\ \A c \in ThirdOperands : LawsHold(scalar_index_[n], scalar_index_[m], c)

\* A in roaring and B a small set, overlapping in part
C27_Witness ==
  /\ scalar_index_["A"].is_roaring_ /\ ~scalar_index_["B"].is_roaring_
  /\ Bitmap_ids(scalar_index_["A"]) \cap Bitmap_ids(scalar_index_["B"]) # {}
  /\ Bitmap_ids(scalar_index_["A"]) \ Bitmap_ids(scalar_index_["B"]) # {}
  /\ Bitmap_ids(scalar_index_["B"]) \ Bitmap_ids(scalar_index_["A"]) # {}

\* ------------------------------------------------------------------ count
CountDoc == [op |-> JStr("count")]

TotalCount(n) == Json([k \in {"__total_count__"} |-> n])

\* a search with a DSL string, a query or none, and a limit
SearchWith(dsl, q, k) ==
  search(vector_index_, scalar_index_, [dsl |-> dsl, query |-> q, topk |-> k])

\* C24: a count sorter without a field returns __total_count__ = N, where N
\* is the cardinality of the filter bitmap when the request has a filter and
\* the number of elements of the index when it has none.
C24_TotalCount ==
  \A q \in Queries, k \in 0..MaxTopk :
    /\ \A r \in {SearchWith(JsonDsl([sorter |-> CountDoc]), q, k)} :
         /\ r.ret = 0
         /\ r.result.labels = <<>>
         /\ r.result.extra_json = TotalCount(Cardinality(DOMAIN vector_index_.label_map_))
    /\ \A ci \in DOMAIN ChildDocs :
         \A b \in {FilterBits(scalar_index_, ChildDocs[ci])} :
           ~b.null =>
             \A r \in {SearchWith(JsonDsl([filter |-> ChildDocs[ci], sorter |-> CountDoc]), q, k)} :
               /\ r.ret = 0
               /\ r.result.labels = <<>>
               /\ r.result.extra_json = TotalCount(Cardinality(b.bits))

\* one record is left of two, and a filter selects an offset
C24_Witness ==
  /\ Cardinality(DOMAIN vector_index_.label_map_) = 1
  /\ scalar_index_.element_size_ = 2
  /\ \E ci \in DOMAIN ChildDocs :
       /\ ~FilterBits(scalar_index_, ChildDocs[ci]).null
       /\ Cardinality(FilterBits(scalar_index_, ChildDocs[ci]).bits) = 1

CountByDoc(field) == [op |-> JStr("count"), field |-> JStr(field)]

CountByTwoDoc(first, second) == [op |-> JStr("count"), field |-> JArr(<<first, second>>)]

\* the offsets that hold the key of the field, inside the filter bitmap when
\* there is one
Holding(fs, field, key, b) ==
  IF b.null THEN Bitmap_ids(fs.field_bitmap_groups_map_[field].bitmap_group_[key])
  ELSE Bitmap_ids(fs.field_bitmap_groups_map_[field].bitmap_group_[key]) \cap b.bits

KeysOf(fs, field) == DOMAIN fs.field_bitmap_groups_map_[field].bitmap_group_

\* the counts of a JSON object, none when it has no entry
JsonOf(counts) == IF DOMAIN counts = {} THEN NoJson ELSE Json(counts)

\* the count of every key of the field
FieldCounts(fs, field, b) ==
  JsonOf([key \in KeysOf(fs, field) |-> Cardinality(Holding(fs, field, key, b))])

\* the pairs of keys that some offset holds together
JointPairs(fs, first, second, b) ==
  {pair \in KeysOf(fs, first) \X KeysOf(fs, second) :
     Holding(fs, first, pair[1], b) \cap Holding(fs, second, pair[2], b) # {}}

\* the count of every such pair under the key "k1,k2"
JointCounts(fs, first, second, b) ==
  JsonOf([key \in {pair[1] \o "," \o pair[2] : pair \in JointPairs(fs, first, second, b)} |->
            Cardinality(UNION {Holding(fs, first, pair[1], b) \cap Holding(fs, second, pair[2], b) :
                                 pair \in {p \in JointPairs(fs, first, second, b) :
                                             p[1] \o "," \o p[2] = key}})])

\* the fields with keys
EnumFields == {"title", "dir"}

\* the filters of a count: none (the null bitmap) and every filter document
\* that yields a bitmap
CountFilters(fs) ==
  {[doc |-> 0, b |-> NullBitmap]}
  \cup {[doc |-> ci, b |-> FilterBits(fs, ChildDocs[ci])] :
          ci \in {di \in DOMAIN ChildDocs : ~FilterBits(fs, ChildDocs[di]).null}}

\* the DSL string of a sorter with the filter, or without one
CountDsl(f, sorter) ==
  IF f.doc = 0 THEN JsonDsl([sorter |-> sorter])
  ELSE JsonDsl([filter |-> ChildDocs[f.doc], sorter |-> sorter])

NoQuery == [null |-> TRUE, vec |-> 0]

\* C25: a count sorter with one field returns, for each key of the field, the
\* number of offsets that hold the key and are in the filter bitmap (all
\* offsets that hold the key when there is no filter); with two fields it
\* returns the joint counts under the keys "k1,k2". (The keys are those the
\* field has when the query has run.)
C25_FieldCounts ==
  \A f \in CountFilters(scalar_index_) :
    /\ \A field \in EnumFields :
         \A r \in {SearchWith(CountDsl(f, CountByDoc(field)), NoQuery, 0)} :
           r.ret = 0 /\ r.result.extra_json = FieldCounts(r.fs, field, f.b)
    /\ \A first \in EnumFields, second \in EnumFields :
         \A r \in {SearchWith(CountDsl(f, CountByTwoDoc(first, second)), NoQuery, 0)} :
           r.ret = 0
           /\ r.result.extra_json = JointCounts(r.fs, first, second, f.b)

\* ------------------------------------------------------ update timestamp
\* the writer is inside a batch
InBatch == pc[Writer] \in {"add_data", "delete_data"}

\* a step that ends the batch: the return after the loop, or an exception
EndsBatch == InBatch /\ pc'[Writer] = "idle"

\* the return after the loop
ReturnsBatch == EndsBatch /\ batch.i = batch.n

\* the step of one record that keeps the writer in the loop
RecordStep == InBatch /\ pc'[Writer] = pc[Writer] /\ batch' # batch

StoresChange == <<vector_index_, scalar_index_>>' # <<vector_index_, scalar_index_>>

StampChanges == manager_meta_'.update_timestamp # manager_meta_.update_timestamp

\* C28 as stated: a batch updates the update timestamp if and only if at
\* least one of its records changed the index (an earlier record was
\* applied, or the step that ends the batch changes a store), whichever way
\* the batch ends.
C28_StampIffChanged ==
  [][EndsBatch => (StampChanges <=> (batch.has_update \/ StoresChange))]_vars

\* what does hold of the timestamp: a batch that returns after its loop
\* updates it if and only if at least one of its records was applied
\* (add_data: the label is in the vector store after stream_add_data;
\* delete_data: the label was in the vector store), it does so while the
\* writer holds the lock exclusively, and no step before the return writes
\* it: not a record, and not an exception that ends the batch. Every record
\* that changes a store counts as applied.
StampOnReturn ==
  [][/\ ReturnsBatch =>
          /\ StampChanges <=> batch.has_update
          /\ rw_mutex_.exclusive = Writer
     /\ ~ReturnsBatch => ~StampChanges
     /\ (RecordStep /\ StoresChange) => batch'.has_update]_vars

\* ------------------------------------------------------------- get_state
\* StateResult as constructed by the caller
StateResultInit == [update_timestamp |-> 0, element_count |-> 0]

\* IndexManagerImpl::get_state: the timestamp is copied into the result, no
\* other member of the result is assigned, and no lock is taken
get_state(state_result) ==
  [ret |-> 0,
   state_result |-> [state_result EXCEPT
                       !.update_timestamp = manager_meta_.update_timestamp]]

\* C29: get_state returns the current update timestamp and the element
\* count, the number of live elements of the index at the time of the call.
C29_GetState ==
  LET r == get_state(StateResultInit) IN
  /\ r.ret = 0
  /\ r.state_result.update_timestamp = manager_meta_.update_timestamp
  /\ r.state_result.element_count = vector_index_.current_count_

\* ========================================================== dump and load
\* The streams are kept as records of what is written, field by field, in
\* the order of writing where the order is read back (vectors), and as a
\* function of the key where a std::map or unordered_map is iterated and the
\* reader inserts by the key it reads.

\* RangedMap::SerializeToStream: the map after the call (SerializeToString
\* converts the Bitmap of every slot in place) and what is written
RangedMap_SerializeToStream(rm) ==
  [rm |-> [rm EXCEPT !.slots_ =
             [i \in DOMAIN @ |-> [@[i] EXCEPT !.bitmap = Bitmap_SerializeToString(@).bm]]],
   out |-> [slots |-> [i \in DOMAIN rm.slots_ |->
                         [left |-> rm.slots_[i].left,
                          right |-> rm.slots_[i].right,
                          temp_data |-> Bitmap_SerializeToString(rm.slots_[i].bitmap).s,
                          value_vec |-> rm.slots_[i].value_vec,
                          offset_vec |-> rm.slots_[i].offset_vec]],
            offset_to_value_ |-> rm.offset_to_value_]]

\* RangedMap::ParseFromStream as it would be if offset_to_value_ were not
\* read back
RangedMap_ParseFromStream_NoValues(input) ==
  [offset_to_value_ |-> <<>>,
   slots_ |-> [i \in DOMAIN input.slots |->
                 [left |-> input.slots[i].left,
                  right |-> input.slots[i].right,
                  bitmap |-> Bitmap_ParseFromString(BitmapInit, input.slots[i].temp_data),
                  value_vec |-> input.slots[i].value_vec,
                  offset_vec |-> input.slots[i].offset_vec]]]

\* RangedMap::ParseFromStream into a new RangedMap
RangedMap_ParseFromStream(input) ==
  [offset_to_value_ |-> input.offset_to_value_,
   slots_ |-> [i \in DOMAIN input.slots |->
                 [left |-> input.slots[i].left,
                  right |-> input.slots[i].right,
                  bitmap |-> Bitmap_ParseFromString(BitmapInit, input.slots[i].temp_data),
                  value_vec |-> input.slots[i].value_vec,
                  offset_vec |-> input.slots[i].offset_vec]]]

\* the children of a node of the trie: the next segments of the leaves below
ChildSegments(dip, node) ==
  {leaf[Len(node) + 1] : leaf \in {l \in dip.leaves : IsPrefixOf(node, l) /\ Len(l) > Len(node)}}

\* DirIndex::serialize_recursive: the segment, is_leaf_, the number of
\* children, and the children
RECURSIVE serialize_recursive(_, _)
serialize_recursive(dip, node) ==
  [path_segment_ |-> IF node = <<>> THEN "" ELSE node[Len(node)],
   is_leaf_ |-> node \in dip.leaves,
   children_num |-> Cardinality(ChildSegments(dip, node)),
   children |-> [seg \in ChildSegments(dip, node) |->
                   serialize_recursive(dip, Append(node, seg))]]

\* DirIndex::parse_recursive: the leaves at and below the node read; a child
\* is put under the segment read for it
RECURSIVE parse_recursive(_, _)
parse_recursive(input, node) ==
  (IF input.is_leaf_ THEN {node} ELSE {})
  \cup UNION {parse_recursive(input.children[c],
                              Append(node, input.children[c].path_segment_)) :
                c \in DOMAIN input.children}

DirIndex_serialize_to_stream(dip) == serialize_recursive(dip, <<>>)

DirIndex_parse_from_stream(input) ==
  [null |-> FALSE, leaves |-> parse_recursive(input, <<>>)]

\* BitmapGroupBase::get_type_id: the type given, or the one the members show
BitmapGroupBase_get_type_id(grp) ==
  IF grp.type_id_ # kBitmapGroupUnknown THEN grp.type_id_
  ELSE IF ~grp.dir_index_.null THEN kBitmapGroupDir
  ELSE IF grp.bitmap_group_ # EmptyMap /\ ~grp.rangedmap_ptr_.null
  THEN kBitmapGroupBothBitmapsAndRange
  ELSE IF grp.bitmap_group_ # EmptyMap THEN kBitmapGroupBitmaps
  ELSE IF ~grp.rangedmap_ptr_.null THEN kBitmapGroupRangedMap
  ELSE kBitmapGroupUnknown

\* the types whose bitmaps are written and read
WithBitmaps == {kBitmapGroupBitmaps, kBitmapGroupBothBitmapsAndRange, kBitmapGroupDir}

WithRangedMap == {kBitmapGroupRangedMap, kBitmapGroupBothBitmapsAndRange}

\* FieldBitmapGroup::serialize_to_stream: the status, the group after the
\* call and what is written. bitmap_num is written for every type, the
\* bitmaps are not written for a group of type RangedMap.
FieldBitmapGroup_serialize_to_stream(grp) ==
  LET bitmap_type_id == BitmapGroupBase_get_type_id(grp)
      g0 == IF bitmap_type_id = kBitmapGroupRangedMap
            THEN get_editable_rangedmap(grp) ELSE grp
      g1 == IF bitmap_type_id \in WithBitmaps
            THEN [g0 EXCEPT !.bitmap_group_ =
                    [k \in DOMAIN @ |-> Bitmap_SerializeToString(@[k]).bm]]
            ELSE g0
      g2 == IF bitmap_type_id \in WithRangedMap
            THEN [g1 EXCEPT !.rangedmap_ptr_.obj = RangedMap_SerializeToStream(@).rm]
            ELSE g1
  IN [ret |-> IF bitmap_type_id = kBitmapGroupUnknown THEN 0 - 1 ELSE 0,
      grp |-> g2,
      out |-> [bitmap_type_id |-> bitmap_type_id,
               bitmap_num |-> Cardinality(DOMAIN grp.bitmap_group_),
               element_num |-> grp.element_size_,
               bitmaps |-> IF bitmap_type_id \in WithBitmaps
                           THEN [k \in DOMAIN grp.bitmap_group_ |->
                                   Bitmap_SerializeToString(grp.bitmap_group_[k]).s]
                           ELSE EmptyMap,
               rangedmap |-> RangedMap_SerializeToStream(
                               IF bitmap_type_id \in WithRangedMap
                               THEN g0.rangedmap_ptr_.obj ELSE RangedMapInit).out,
               dir_index |-> DirIndex_serialize_to_stream(
                               IF bitmap_type_id = kBitmapGroupDir
                               THEN grp.dir_index_ ELSE DirIndexInit)]]

\* FieldBitmapGroup::parse_from_stream on a group made without a type: clear,
\* then the type, the bitmaps, the RangedMap and the DirIndex of the type,
\* and element_size_
FieldBitmapGroup_parse_from_stream(input) ==
  IF input.bitmap_type_id \notin WithBitmaps \cup WithRangedMap
  THEN [ret |-> 0 - 1,
        grp |-> [FieldBitmapGroupInit(kBitmapGroupUnknown) EXCEPT
                   !.type_id_ = input.bitmap_type_id]]
  ELSE IF input.bitmap_num < 0
  THEN [ret |-> 0 - 2,
        grp |-> [FieldBitmapGroupInit(kBitmapGroupUnknown) EXCEPT
                   !.type_id_ = input.bitmap_type_id]]
  ELSE [ret |-> 0,
        grp |-> [bitmap_group_ |->
                   IF input.bitmap_type_id \in WithBitmaps
                   THEN [k \in DOMAIN input.bitmaps |->
                           Bitmap_ParseFromString(BitmapInit, input.bitmaps[k])]
                   ELSE EmptyMap,
                 element_size_ |-> input.element_num,
                 type_id_ |-> input.bitmap_type_id,
                 rangedmap_ptr_ |->
                   IF input.bitmap_type_id \in WithRangedMap
                   THEN [null |-> FALSE, obj |-> RangedMap_ParseFromStream(input.rangedmap)]
                   ELSE NullRangedMap,
                 dir_index_ |->
                   IF input.bitmap_type_id = kBitmapGroupDir
                   THEN DirIndex_parse_from_stream(input.dir_index)
                   ELSE NullDirIndex]]

kGroupSetVersion1 == 1

\* FieldBitmapGroupSet::serialize_set_to_stream: the status, the field set
\* after the call and what is written
FieldBitmapGroupSet_serialize_set_to_stream(fs) ==
  LET bitmap_num == Cardinality(DOMAIN fs.field_bitmap_groups_map_)
      element_num == fs.element_size_
      group(f) == FieldBitmapGroup_serialize_to_stream(fs.field_bitmap_groups_map_[f])
      written == bitmap_num > 0 \/ element_num > 0
  IN [ret |-> IF written /\ \E f \in DOMAIN fs.field_bitmap_groups_map_ : group(f).ret # 0
              THEN 0 - 1 ELSE 0,
      fs |-> IF written
             THEN [fs EXCEPT !.field_bitmap_groups_map_ = [f \in DOMAIN @ |-> group(f).grp]]
             ELSE fs,
      out |-> [save_version |-> kGroupSetVersion1,
               bitmap_num |-> bitmap_num,
               element_num |-> element_num,
               groups |-> IF written
                          THEN [f \in DOMAIN fs.field_bitmap_groups_map_ |-> group(f).out]
                          ELSE EmptyMap]]

\* FieldBitmapGroupSet::parse_set_from_stream on the new field set "default":
\* the groups read are handed to add_field_group
FieldBitmapGroupSet_parse_set_from_stream(input) ==
  LET group(f) == FieldBitmapGroup_parse_from_stream(input.groups[f])
      read == input.bitmap_num > 0 \/ input.element_num > 0
      names == IF read THEN DOMAIN input.groups ELSE {}
  IN IF input.save_version # kGroupSetVersion1 \/ \E f \in names : group(f).ret # 0
     THEN [ret |-> 0 - 1, fs |-> FieldBitmapGroupSetInit(EmptyMap)]
     ELSE [ret |-> 0,
           fs |-> [field_bitmap_groups_map_ |-> [f \in names |-> group(f).grp],
                   path_field_names_ |->
                     {f \in names :
                        BitmapGroupBase_get_type_id(group(f).grp) = kBitmapGroupDir},
                   element_size_ |-> input.element_num]]

\* IndexManagerImpl::dump: the index after the call and the files written
IndexManagerImpl_dump(vi, fs) ==
  [scalar_index_ |-> FieldBitmapGroupSet_serialize_set_to_stream(fs).fs,
   scalar_file |-> FieldBitmapGroupSet_serialize_set_to_stream(fs).out,
   vector_file |-> save(vi)]

\* IndexManagerImpl::load_from_path: a new vector store of the same meta
\* loads its file and a new ScalarIndex parses its file
IndexManagerImpl_load_from_path(enable_sparse, files) ==
  [vector_index_ |-> load(enable_sparse, files.vector_file),
   scalar_index_ |-> FieldBitmapGroupSet_parse_set_from_stream(files.scalar_file).fs]

\* -------------------------------------------------- an index that is dumped
\* the ScalarIndexMeta of an index with a field of every type
DumpMeta ==
  [f \in {"title", "dir", "price", "rank"} |->
     IF f = "title" THEN "string" ELSE IF f = "dir" THEN "path"
     ELSE IF f = "price" THEN "float32" ELSE "int64"]

InitDump ==
  /\ vector_index_ = BruteforceSearchInit(FALSE)
  /\ scalar_index_ = FieldBitmapGroupSetInit(DumpMeta)
  /\ rw_mutex_ = [exclusive |-> NoThread, shared |-> {}]
  /\ pc = [t \in Threads |-> "idle"]
  /\ acc = [t \in Readers |-> {}]
  /\ batch = [i |-> 0, n |-> 0, has_update |-> FALSE]
  /\ assigned = EmptyMap
  /\ moved = FALSE
  /\ manager_meta_ = ManagerMetaInit

\* the FieldsDict of a record with an int64 rank: FieldsDict keeps an int64
\* as its decimal string and as a double
DumpFieldsOf(title, dir, price, rank_str, rank) ==
  [str_kv_map_ |-> [f \in {"title", "dir", "rank"} |->
                      IF f = "title" THEN <<title>>
                      ELSE IF f = "dir" THEN <<dir>> ELSE <<rank_str>>],
   dbl_kv_map_ |-> [f \in {"price", "rank"} |-> IF f = "price" THEN price ELSE rank]]

DumpRecordOf(label) ==
  IF label = 1 THEN DumpFieldsOf("a", "/x", 0, "1", 1)
  ELSE DumpFieldsOf("ab", "/x/y", 1, "0", 0)

DumpFields(label) == <<DumpRecordOf(label), NoFields>>

\* the vectors of the records
DumpVector(label) == IF label = 1 THEN 0 ELSE MaxVec

\* dump called on the index: the Bitmaps are converted in place while the
\* files are written (the files are not kept in the state)
DumpOne ==
  /\ pc[Writer] = "idle"
  /\ CanLockShared
  /\ scalar_index_' = IndexManagerImpl_dump(vector_index_, scalar_index_).scalar_index_
  /\ UNCHANGED <<vector_index_, rw_mutex_, pc, acc, batch, assigned, moved, manager_meta_>>

\* the index is dumped and a new index is loaded from the files: from here
\* on the state is that of the new index
LoadOne ==
  /\ pc[Writer] = "idle"
  /\ CanLockShared
  /\ \E r \in {IndexManagerImpl_load_from_path(
                 vector_index_.enable_sparse,
                 IndexManagerImpl_dump(vector_index_, scalar_index_))} :
       /\ vector_index_' = r.vector_index_
       /\ scalar_index_' = r.scalar_index_
  /\ UNCHANGED <<rw_mutex_, pc, acc, batch, assigned, moved, manager_meta_>>

NextDump ==
  \/ \E l \in FilterLabels, f \in 1..2 :
       AddDataOne([label |-> l, vector |-> DumpVector(l), sparse |-> TermWithValue,
                   fields |-> DumpFields(l)[f], old_fields |-> NoFields])
  \/ \E l \in FilterLabels, f \in 1..2 :
       DeleteDataOne([label |-> l, old_fields |-> DumpFields(l)[f]])
  \/ DumpOne
  \/ LoadOne

SpecDump == InitDump /\ [][NextDump]_vars

\* the sorter documents asked: by price in both directions, around a centre,
\* and by price and rank
DumpSortDocs ==
  <<[op |-> JStr("sort"), field |-> JStr("price"), order |-> JStr(kOrderAscStr),
     topk |-> MaxTopk],
    [op |-> JStr("sort"), field |-> JStr("price"), order |-> JStr(kOrderDescStr),
     topk |-> 1],
    CenterDoc(1, MaxTopk),
    MultiDoc(kOrderAscStr, kOrderDescStr, MaxTopk)>>

DumpSortOps == [d \in DOMAIN DumpSortDocs |-> SorterOp_load_json_doc(DumpSortDocs[d])]

\* a sort with the value a stray read gives: both values for the sort around
\* a centre, which alone makes one (C22)
SortCases ==
  {x \in (DOMAIN DumpSortDocs) \X StrayReads :
     DumpSortOps[x[1]].type_ = "SORT_CENTER_1D" \/ \A s \in StrayReads : x[2] <= s}

\* the count sorters asked: the total, by a field, by two fields
DumpCountDocs == <<CountDoc, CountByDoc("title"), CountByTwoDoc("title", "dir")>>

\* the status and the result of a search
Answer(r) == <<r.ret, r.result>>

\* what an index answers: every filter document alone, every count with
\* and without a filter, every sort with and without a filter bitmap, and
\* every vector search with and without a filter. The converter of labels
\* is that of the manager, for the index loaded too: it gives the same
\* offsets when the label-to-offset assignment is the same.
AnswersOf(vi, fs) ==
  [filters |->
     [d \in DOMAIN ChildDocs |-> FilterBits(fs, ChildDocs[d])],
   counts |->
     [x \in (DOMAIN ChildDocs \cup {0}) \X (DOMAIN DumpCountDocs) |->
        Answer(search(vi, fs, [dsl |-> CountDsl([doc |-> x[1]], DumpCountDocs[x[2]]),
                               query |-> NoQuery, topk |-> 0]))],
   sorts |->
     [x \in SortCases |->
        [bits \in SUBSET (0..(MaxOffset - 1)) |->
           SorterOp_calc_topk_result(DumpSortOps[x[1]], fs, Temp(bits), x[2])]],
   sorts_all |->
     [x \in SortCases |->
        SorterOp_calc_topk_result(DumpSortOps[x[1]], fs, NullBitmap, x[2])],
   searches |->
     [x \in (DOMAIN ChildDocs \cup {0}) \X Vectors \X (0..MaxTopk) |->
        Answer(search(vi, fs, [dsl |-> IF x[1] = 0 THEN EmptyDsl
                                       ELSE JsonDsl([filter |-> ChildDocs[x[1]]]),
                               query |-> [null |-> FALSE, vec |-> x[2]],
                               topk |-> x[3]]))]]

\* the index loaded from the dump of the index
Loaded ==
  IndexManagerImpl_load_from_path(vector_index_.enable_sparse,
                                  IndexManagerImpl_dump(vector_index_, scalar_index_))

\* C30: for every index state reachable by adds and deletes, dumping it and
\* loading the dump into a new index yields an index with the same live
\* labels, the same label-to-logical-offset assignment and next logical
\* offset, the same result for every filter and sorter query, and the same
\* result for every vector search.
C30_DumpLoadSame ==
  \A new \in {Loaded} :
    /\ DOMAIN new.vector_index_.label_map_ = DOMAIN vector_index_.label_map_
    /\ \A l \in Labels :
         get_offset_by_label(new.vector_index_, l) = get_offset_by_label(vector_index_, l)
    /\ new.vector_index_.next_logical_offset_ = vector_index_.next_logical_offset_
    /\ AnswersOf(new.vector_index_, new.scalar_index_)
         = AnswersOf(vector_index_, scalar_index_)

\* an index with a live record after a delete, dumped, so that the loaded
\* index holds its Bitmaps in another representation than the dumped one,
\* with a value in a slot of the price and a leaf in the trie
C30_Witness ==
  /\ vector_index_.current_count_ >= 1
  /\ vector_index_.next_logical_offset_ > vector_index_.current_count_
  /\ scalar_index_.field_bitmap_groups_map_["price"].rangedmap_ptr_.obj.slots_ # <<>>
  /\ scalar_index_.field_bitmap_groups_map_["dir"].dir_index_.leaves # {}
  /\ \E k \in DOMAIN scalar_index_.field_bitmap_groups_map_["title"].bitmap_group_ :
       /\ scalar_index_.field_bitmap_groups_map_["title"].bitmap_group_[k].is_roaring_
       /\ Bitmap_ids(scalar_index_.field_bitmap_groups_map_["title"].bitmap_group_[k]) # {}
  /\ Loaded.scalar_index_ # scalar_index_

\* =================================================== the term dictionary
\* SparseRowIndex taken alone: index_term_ (position = id) and term_index_.
\* A term is a TermKey, the hash of a user string: the dictionary never sees
\* the strings.  The CSR rows are those of SparseDataset above.
MaxPairs == 3        \* a (term, value) list has 0..MaxPairs pairs

SparseRowIndexInit ==
  [finish_populate_terms_ |-> FALSE, index_term_ |-> <<>>, term_index_ |-> EmptyMap]

SparseRowIndex_init_empty_data(sri) == [sri EXCEPT !.finish_populate_terms_ = TRUE]

\* positions 1..Len(keys) in the order std::sort leaves them under less-than
\* on the keys (the callers pass keys that are all different)
RECURSIVE sorted_indices(_, _)
sorted_indices(keys, left) ==
  IF left = {} THEN <<>>
  ELSE LET a == CHOOSE x \in left :
                  \A y \in left : keys[x] < keys[y] \/ (keys[x] = keys[y] /\ x <= y)
       IN <<a>> \o sorted_indices(keys, left \ {a})

\* the lambda of ZipSortBranchOptimized: temp[i] = it[indices[i]], copied back
rearrange(it, indices) == [i \in 1..Len(it) |-> it[indices[i]]]

\* a co-sort that orders the keys and leaves the second sequence as it was
ZipSortBranchOptimized_KeysOnly(keys, vals) ==
  IF Len(keys) <= 1 THEN [keys |-> keys, vals |-> vals]
  ELSE [keys |-> rearrange(keys, sorted_indices(keys, DOMAIN keys)), vals |-> vals]

\* ZipSortBranchOptimized(std::less, keys, vals): both sequences rearranged
\* by the same permutation
ZipSortBranchOptimized(keys, vals) ==
  IF Len(keys) <= 1 THEN [keys |-> keys, vals |-> vals]
  ELSE LET indices == sorted_indices(keys, DOMAIN keys)
       IN [keys |-> rearrange(keys, indices), vals |-> rearrange(vals, indices)]

\* the loop of index_by_terms over ii (the right operand of
\* "term_index_[term] = IndexT(term_index_.size())" is evaluated first: the
\* id is the size before the insertion)
RECURSIVE index_by_terms_loop(_, _, _, _)
index_by_terms_loop(terms, values, ii, st) ==
  IF ii > Len(terms) THEN st
  ELSE LET term == terms[ii]
           val == values[ii]
           sri1 == IF term \in DOMAIN st.sri.term_index_ THEN st.sri
                   ELSE [st.sri EXCEPT
                           !.term_index_ = MapPut(@, term, Cardinality(DOMAIN @)),
                           !.index_term_ = Append(@, term)]
       IN index_by_terms_loop(terms, values, ii + 1,
            IF term \notin DOMAIN st.add_term_set
            THEN [sri |-> sri1,
                  add_term_set |-> MapPut(st.add_term_set, term,
                                          Len(st.mutable_indices)),
                  mutable_indices |-> Append(st.mutable_indices,
                                             sri1.term_index_[term]),
                  mutable_values |-> Append(st.mutable_values, val)]
            ELSE [st EXCEPT !.sri = sri1,
                            !.mutable_values[st.add_term_set[term] + 1] = @ + val])

\* SparseRowIndex::index_by_terms: the return code, the index afterwards and
\* the two output vectors (left as they were on a size mismatch)
SparseRowIndex_index_by_terms(sri, terms, values, mutable_indices, mutable_values) ==
  IF Len(terms) # Len(values)
  THEN [ret |-> 0 - 1, sri |-> sri, mutable_indices |-> mutable_indices,
        mutable_values |-> mutable_values]
  ELSE IF ~sri.finish_populate_terms_
  THEN [ret |-> 0 - 2, sri |-> sri, mutable_indices |-> <<>>, mutable_values |-> <<>>]
  ELSE LET st == index_by_terms_loop(terms, values, 1,
                   [sri |-> sri, add_term_set |-> EmptyMap,
                    mutable_indices |-> <<>>, mutable_values |-> <<>>])
           z == ZipSortBranchOptimized(st.mutable_indices, st.mutable_values)
       IN [ret |-> 0, sri |-> st.sri, mutable_indices |-> z.keys,
           mutable_values |-> z.vals]

\* SparseRowIndex::save_data: the header of the row file (rows, cols and the
\* terms in id order); nothing is written before the terms are populated
NoFile == [exists |-> FALSE, cols |-> 0, terms |-> <<>>]

SparseRowIndex_save_data(sri) ==
  IF ~sri.finish_populate_terms_ THEN [ret |-> 0 - 1, file |-> NoFile]
  ELSE [ret |-> 0,
        file |-> [exists |-> TRUE, cols |-> Len(sri.index_term_),
                  terms |-> [i \in 1..Len(sri.index_term_) |-> sri.index_term_[i]]]]

\* the loop of load_data over the cols terms of the file: ii is the id
RECURSIVE load_terms_loop(_, _, _)
load_terms_loop(sri, file, ii) ==
  IF ii >= file.cols THEN [ret |-> 0, sri |-> sri]
  ELSE LET tmp_term == file.terms[ii + 1]
       IN IF tmp_term \in DOMAIN sri.term_index_
          THEN [ret |-> 0 - 4, sri |-> sri]
          ELSE load_terms_loop([sri EXCEPT !.term_index_ = MapPut(@, tmp_term, ii),
                                           !.index_term_ = Append(@, tmp_term)],
                               file, ii + 1)

\* a load that numbers the terms of the file from one
RECURSIVE load_terms_from_one(_, _, _)
load_terms_from_one(sri, file, ii) ==
  IF ii >= file.cols THEN [ret |-> 0, sri |-> sri]
  ELSE load_terms_from_one(
         [sri EXCEPT !.term_index_ = MapPut(@, file.terms[ii + 1], ii + 1),
                     !.index_term_ = Append(@, file.terms[ii + 1])],
         file, ii + 1)

SparseRowIndex_load_data_FromOne(sri, file) ==
  IF ~file.exists THEN [ret |-> 0 - 1, sri |-> sri]
  ELSE \* finish_populate_terms_ is set once the terms are read
       [load_terms_from_one(sri, file, 0) EXCEPT !.sri.finish_populate_terms_ = TRUE]

\* SparseRowIndex::load_data
SparseRowIndex_load_data(sri, file) ==
  IF ~file.exists THEN [ret |-> 0 - 1, sri |-> sri]
  ELSE LET r == load_terms_loop(sri, file, 0)
       IN IF r.ret # 0 THEN r
          ELSE [r EXCEPT !.sri.finish_populate_terms_ = TRUE]

\* ---------------------------------------------------- the sparse head alone
\* vector_index_ is the SparseRowIndex of a store built with a sparse head
\* (the constructor calls init_empty_data); acc is the last conversion: its
\* arguments and what it returned; moved tells that the index was last
\* rebuilt from its file.
\* the lists of terms, and the lists of n values that go with one: the values
\* 1..MaxValue taken in turn from a starting value
TermKeyLists == UNION {[1..n -> Terms] : n \in 0..MaxPairs}

ValueLists(n) == {[i \in 1..n |-> ((i + s) % MaxValue) + 1] : s \in 0..(MaxValue - 1)}

NoConversion == [terms |-> <<>>, values |-> <<>>, ret |-> 0,
                 mutable_indices |-> <<>>, mutable_values |-> <<>>]

InitTerms ==
  /\ vector_index_ = SparseRowIndex_init_empty_data(SparseRowIndexInit)
  /\ scalar_index_ = FieldBitmapGroupSetInit(TitleMeta)
  /\ rw_mutex_ = [exclusive |-> NoThread, shared |-> {}]
  /\ pc = [t \in Threads |-> "idle"]
  /\ acc = NoConversion
  /\ batch = [i |-> 0, n |-> 0, has_update |-> FALSE]
  /\ assigned = EmptyMap
  /\ moved = FALSE
  /\ manager_meta_ = ManagerMetaInit

\* make_sparse_point_by_low_level / make_sparse_view_by_low_level on the
\* terms and values of a record or of a query: the output vectors start empty
IndexByTerms(terms, values) ==
  /\ \E r \in {SparseRowIndex_index_by_terms(vector_index_, terms, values, <<>>, <<>>)} :
       /\ vector_index_' = r.sri
       /\ acc' = [terms |-> terms, values |-> values, ret |-> r.ret,
                  mutable_indices |-> r.mutable_indices,
                  mutable_values |-> r.mutable_values]
  /\ moved' = FALSE
  /\ UNCHANGED <<scalar_index_, rw_mutex_, pc, batch, assigned, manager_meta_>>

\* save followed by load: the sparse head of a newly constructed store reads
\* the file just written
TermsSaveLoad ==
  /\ vector_index_' =
       SparseRowIndex_load_data(SparseRowIndex_init_empty_data(SparseRowIndexInit),
                                SparseRowIndex_save_data(vector_index_).file).sri
  /\ moved' = TRUE
  /\ UNCHANGED <<scalar_index_, rw_mutex_, pc, acc, batch, assigned, manager_meta_>>

NextTerms ==
  \/ \E terms \in TermKeyLists : \E values \in ValueLists(Len(terms)) :
       IndexByTerms(terms, values)
  \/ IndexByTerms(<<1>>, <<>>)
  \/ TermsSaveLoad

SpecTerms == InitTerms /\ [][NextTerms]_vars

\* C31: a term that has an id keeps it over every step, a save followed by a
\* load included; the terms that get an id in a step get ids above every id
\* given before; no two terms of the dictionary have the same id.
TermIdsKept ==
  \A t \in DOMAIN vector_index_.term_index_ :
    /\ t \in DOMAIN vector_index_'.term_index_
    /\ vector_index_'.term_index_[t] = vector_index_.term_index_[t]

TermIdsIncrease ==
  \A t \in DOMAIN vector_index_'.term_index_ \ DOMAIN vector_index_.term_index_ :
    \A u \in DOMAIN vector_index_.term_index_ :
      vector_index_'.term_index_[t] > vector_index_.term_index_[u]

TermIdsDistinct(sri) ==
  \A t, u \in DOMAIN sri.term_index_ :
    t # u => sri.term_index_[t] # sri.term_index_[u]

RECURSIVE SumFor(_, _, _, _)
SumFor(terms, values, t, i) ==
  IF i > Len(terms) THEN 0
  ELSE (IF terms[i] = t THEN values[i] ELSE 0) + SumFor(terms, values, t, i + 1)

\* C34: a conversion of a list of (term, value) pairs that returned 0 left
\* the ids in strictly increasing order, one id for every term of the list
\* and no other, and with every id the sum of the values given for its term.
C34_SparseVectorSorted ==
  (acc.ret = 0) =>
    /\ Len(acc.mutable_indices) = Len(acc.mutable_values)
    /\ \A i, j \in DOMAIN acc.mutable_indices :
         i < j => acc.mutable_indices[i] < acc.mutable_indices[j]
    /\ {acc.mutable_indices[i] : i \in DOMAIN acc.mutable_indices}
         = {vector_index_.term_index_[t] : t \in Range(acc.terms)}
    /\ \A i \in DOMAIN acc.mutable_indices :
         \A t \in Range(acc.terms) :
           vector_index_.term_index_[t] = acc.mutable_indices[i]
             => acc.mutable_values[i] = SumFor(acc.terms, acc.values, t, 1)

\* a list that names one term twice around another term, the first term
\* holding the greater id and the two sums being different
C34_Witness ==
  /\ acc.ret = 0
  /\ Len(acc.terms) = 3
  /\ acc.terms[1] = acc.terms[3]
  /\ acc.terms[1] # acc.terms[2]
  /\ vector_index_.term_index_[acc.terms[1]] > vector_index_.term_index_[acc.terms[2]]
  /\ Len(acc.mutable_values) = 2
  /\ acc.mutable_values[1] # acc.mutable_values[2]

\* ============================================== the lock, under scheduling
\* the manager with the calls that take the lock in each of their ways of
\* ending: a batch with an insert, an update and a record whose sparse values
\* do not match its terms (stream_add_data throws), a delete, searches that
\* fail before the lock, fail under it and succeed, and dumps that throw
LiveAdds == <<AddDataRequests[1], AddDataRequests[3], AddDataRequests[5]>>

LiveDeletes == <<DeleteDataRequests[1]>>

LiveSearches ==
  <<[dsl |-> GarbageDsl, query |-> [null |-> FALSE, vec |-> 0], topk |-> 1],
    [dsl |-> EmptyDsl, query |-> [null |-> FALSE, vec |-> 0], topk |-> 1],
    [dsl |-> JsonDsl([filter |-> FilterDocs[5]]),
     query |-> [null |-> FALSE, vec |-> 0], topk |-> 1]>>

NextLive ==
  \/ \E n \in 1..MaxBatch : AddDataLock(n)
  \/ \E d \in DOMAIN LiveAdds : AddDataRecord(LiveAdds[d])
  \/ AddDataReturn(CallTime)
  \/ \E n \in 1..MaxBatch : DeleteDataLock(n)
  \/ \E d \in DOMAIN LiveDeletes : DeleteDataRecord(LiveDeletes[d])
  \/ DeleteDataReturn(CallTime)
  \/ \E t \in Readers, s \in DOMAIN LiveSearches : Search(t, LiveSearches[s])
  \/ \E t \in Readers : SearchReturn(t)
  \/ \E t \in Readers, io_ok \in BOOLEAN : Dump(t, io_ok)
  \/ \E t \in Readers : DumpReturn(t)

\* a thread that is inside a call and holds the lock is running: the
\* scheduler lets it take its next step (nothing inside a call waits)
Scheduled ==
  /\ WF_vars(\E d \in DOMAIN LiveAdds : AddDataRecord(LiveAdds[d]))
  /\ WF_vars(AddDataReturn(CallTime))
  /\ WF_vars(\E d \in DOMAIN LiveDeletes : DeleteDataRecord(LiveDeletes[d]))
  /\ WF_vars(DeleteDataReturn(CallTime))
  /\ \A t \in Readers : WF_vars(SearchReturn(t)) /\ WF_vars(DumpReturn(t))

SpecLive == Init /\ [][NextLive]_vars /\ Scheduled

\* the threads that hold rw_mutex_
Holders ==
  rw_mutex_.shared \cup (IF rw_mutex_.exclusive = NoThread THEN {}
                         ELSE {rw_mutex_.exclusive})

Inside(t) == pc[t] # "idle"

\* C32: a call that holds the lock ends, and when it has ended, by a return,
\* an error or an exception, its thread does not hold the lock: the lock is
\* only ever held by threads that are inside a call.
C32_LockReleased ==
  /\ [](\A t \in Holders : Inside(t))
  /\ \A t \in Threads : (t \in Holders) ~> (~Inside(t) /\ t \notin Holders)

\* the writer waits: both readers are inside calls and hold the lock shared
C32_Witness ==
  /\ rw_mutex_.shared = Readers
  /\ \E t \in Readers : pc[t] = "dump"
  /\ \E t \in Readers : pc[t] = "search"
  /\ vector_index_.current_count_ > 0

\* C33: add_offset_and_score for an offset that has a value (not NaN) returns
\* an error code and the RangedMap it leaves (offset_to_value_, the slots and
\* their bitmaps) is the one it was called on, whatever the value given.
C33_DuplicateAddRejected ==
  \A o \in Valued(PriceMap) : \A v \in Values \cup {NaN} :
    \A r \in {add_offset_and_score(PriceMap, o, v)} :
      r.ret # 0 /\ r.rm = PriceMap

\* the map holds values in two slots and an offset without a value below an
\* offset that has one
C33_Witness ==
  /\ Len(PriceMap.slots_) >= 2
  /\ \E o \in Valued(PriceMap) : \E h \in 0..(o - 1) : h \notin Valued(PriceMap)

\* ==================================================== records rewritten
\* an index with a string field and a float field, where the caller keeps
\* the fields of every live record (assigned: label -> the FieldsDict of its
\* last add) and hands them back as old_fields
UpdateMeta == [f \in {"title", "price"} |-> IF f = "title" THEN "string" ELSE "float32"]

UFields(title, price) ==
  [str_kv_map_ |-> [f \in {"title"} |-> <<title>>],
   dbl_kv_map_ |-> [f \in {"price"} |-> price]]

\* what an add can carry: no fields, or a title and a price
UpdateRecords == <<NoFields, UFields("a", 0), UFields("b", MaxValue), UFields("a", MaxValue)>>

InitUpdate ==
  /\ vector_index_ = BruteforceSearchInit(FALSE)
  /\ scalar_index_ = FieldBitmapGroupSetInit(UpdateMeta)
  /\ rw_mutex_ = [exclusive |-> NoThread, shared |-> {}]
  /\ pc = [t \in Threads |-> "idle"]
  /\ acc = [t \in Readers |-> {}]
  /\ batch = [i |-> 0, n |-> 0, has_update |-> FALSE]
  /\ assigned = EmptyMap
  /\ moved = FALSE
  /\ manager_meta_ = ManagerMetaInit

\* the fields the caller holds for a label
CurrentFields(label) == IF label \in DOMAIN assigned THEN assigned[label] ELSE NoFields

\* add_data with a list of one record, the caller's copy kept up to date
AddDataKept(data) ==
  /\ pc[Writer] = "idle"
  /\ CanLockExclusive
  /\ vector_index_.next_logical_offset_ + 1 <= MaxOffset
  /\ \E r \in {add_point(vector_index_, data.vector, data.label, data.sparse)} :
       /\ vector_index_' = r.bf
       /\ scalar_index_' =
            IF r.threw \/ get_offset_by_label(r.bf, data.label) < 0
            THEN scalar_index_
            ELSE add_row_data(scalar_index_, get_offset_by_label(r.bf, data.label),
                              data.fields, data.old_fields)
       /\ StampAt(~r.threw /\ get_offset_by_label(r.bf, data.label) >= 0, CallTime)
       /\ assigned' = IF r.threw THEN assigned
                      ELSE MapPut(assigned, data.label, data.fields)
  /\ UNCHANGED <<rw_mutex_, pc, acc, batch, moved>>

\* delete_data with a list of one record
DeleteDataKept(data) ==
  /\ pc[Writer] = "idle"
  /\ CanLockExclusive
  /\ LET offset == get_offset_by_label(vector_index_, data.label)
     IN IF offset < 0
        THEN UNCHANGED <<vector_index_, scalar_index_, manager_meta_>>
        ELSE /\ scalar_index_' = delete_row_data(scalar_index_, offset, data.old_fields)
             /\ vector_index_' = remove_point(vector_index_, data.label).bf
             /\ StampAt(TRUE, CallTime)
  /\ assigned' = MapErase(assigned, data.label)
  /\ UNCHANGED <<rw_mutex_, pc, acc, batch, moved>>

\* every add and every delete names the current fields of the record
NextUpdate ==
  \/ \E l \in Labels, f \in DOMAIN UpdateRecords :
       AddDataKept([label |-> l, vector |-> 0, sparse |-> TermWithValue,
                    fields |-> UpdateRecords[f], old_fields |-> CurrentFields(l)])
  \/ \E l \in Labels :
       DeleteDataKept([label |-> l, old_fields |-> CurrentFields(l)])

SpecUpdate == InitUpdate /\ [][NextUpdate]_vars

\* a record with the given fields satisfies a filter document
RECURSIVE Satisfies(_, _)
Satisfies(fields, doc) ==
  LET op == doc.op.s
      keyed == /\ doc.field.s \in DOMAIN fields.str_kv_map_
               /\ \E i \in DOMAIN fields.str_kv_map_[doc.field.s] :
                    \E c \in DOMAIN doc.conds :
                      fields.str_kv_map_[doc.field.s][i] = doc.conds[c]
  IN IF op = "must" THEN keyed
     ELSE IF op = "must_not" THEN ~keyed
     ELSE IF op = "range"
     THEN /\ doc.field.s \in DOMAIN fields.dbl_kv_map_
          /\ \A v \in {fields.dbl_kv_map_[doc.field.s]} :
               /\ "gt" \in DOMAIN doc => v > doc.gt
               /\ "gte" \in DOMAIN doc => v >= doc.gte
               /\ "lt" \in DOMAIN doc => v < doc.lt
               /\ "lte" \in DOMAIN doc => v <= doc.lte
     ELSE IF op = "and"
     THEN \A c \in DOMAIN doc.conds : Satisfies(fields, doc.conds[c])
     ELSE \E c \in DOMAIN doc.conds : Satisfies(fields, doc.conds[c])

\* the filters asked: keys and ranges that are and are not in the index
UpdateFilters ==
  <<MustDoc("a"), MustDoc("b"), MustDoc("z"),
    RangeDoc("range", "gte", 0, "lte", 0),
    RangeDoc("range", "gt", 0, "none", 0),
    [op |-> JStr("and"), conds |-> <<MustDoc("a"), RangeDoc("range", "gt", 0, "none", 0)>>],
    [op |-> JStr("or"), conds |-> <<MustDoc("b"), RangeDoc("range", "none", 0, "lte", 0)>>],
    MustNotDoc("a"), MustNotDoc("z")>>

\* the labels of a vector search under a filter, with k not below the
\* number of live records
FilteredLabels(vi, fs, doc) ==
  Range(search(vi, fs, [dsl |-> JsonDsl([filter |-> doc]),
                        query |-> [null |-> FALSE, vec |-> 0],
                        topk |-> MaxLabel]).result.labels)

\* the live records whose fields satisfy the filter
SatisfyingLabels(doc) == {l \in DOMAIN assigned : Satisfies(assigned[l], doc)}

\* C35: with old_fields always equal to the current fields of the record, a
\* filtered vector search with k not below the number of live records returns
\* exactly the labels of the live records whose fields satisfy the filter.
C35_FilteredSearchExact ==
  \A i \in DOMAIN UpdateFilters :
    FilteredLabels(vector_index_, scalar_index_, UpdateFilters[i])
      = SatisfyingLabels(UpdateFilters[i])

\* the same for the filters that select by a key or a range, alone or under
\* and / or (no must_not)
PositiveFilters == SubSeq(UpdateFilters, 1, 7)

FilteredSearchExactPositive ==
  \A i \in DOMAIN PositiveFilters :
    FilteredLabels(vector_index_, scalar_index_, PositiveFilters[i])
      = SatisfyingLabels(PositiveFilters[i])

\* ------------------------------------------- old_fields given or left out
\* the same index where a call names the current fields of the record as
\* old_fields or names none (old_fields_str is optional)
OldFieldsOf(label) == {CurrentFields(label), NoFields}

NextAnyUpdate ==
  \/ \E l \in Labels, f \in DOMAIN UpdateRecords : \E old \in OldFieldsOf(l) :
       AddDataKept([label |-> l, vector |-> 0, sparse |-> TermWithValue,
                    fields |-> UpdateRecords[f], old_fields |-> old])
  \/ \E l \in Labels : \E old \in OldFieldsOf(l) :
       DeleteDataKept([label |-> l, old_fields |-> old])

SpecAnyUpdate == InitUpdate /\ [][NextAnyUpdate]_vars

\* the sorters asked: by price, both directions
PriceSortDocs ==
  <<[op |-> JStr("sort"), field |-> JStr("price"), order |-> JStr(kOrderAscStr),
     topk |-> MaxOffset],
    [op |-> JStr("sort"), field |-> JStr("price"), order |-> JStr(kOrderDescStr),
     topk |-> 1]>>

PriceSortOps == [d \in DOMAIN PriceSortDocs |-> SorterOp_load_json_doc(PriceSortDocs[d])]

\* handle_sorter_query for a sort: every offset of the sorter result is
\* mapped by get_label_by_offset, and the labels and the scores are swapped
\* into the SearchResult
handle_sorter_query_sort(op, bitmap, vi, fs, stray_read) ==
  LET convert(sorter_res) ==
        IF sorter_res.null THEN [labels |-> <<>>, scores |-> <<>>]
        ELSE [labels |-> [i \in 1..Len(sorter_res.offsets) |->
                            get_label_by_offset(vi, sorter_res.offsets[i])],
              scores |-> sorter_res.scores]
  IN convert(SorterOp_calc_topk_result(op, fs, bitmap, stray_read).res)

\* the labels of a search with a sorter and no filter, and with a filter
\* whose bitmap is not null (a null one ends the search with -1)
SortedLabels(vi, fs, d) ==
  UNION {Range(handle_sorter_query_sort(PriceSortOps[d], NullBitmap, vi, fs, s).labels) :
           s \in StrayReads}

SortedFilteredLabels(vi, fs, d, doc) ==
  IF FilterBits(fs, doc).null THEN {}
  ELSE UNION {Range(handle_sorter_query_sort(PriceSortOps[d],
                                             Temp(FilterBits(fs, doc).bits),
                                             vi, fs, s).labels) :
                s \in StrayReads}

\* the labels of a vector search without a filter
UnfilteredLabels(vi, fs) ==
  Range(search(vi, fs, [dsl |-> EmptyDsl, query |-> [null |-> FALSE, vec |-> 0],
                        topk |-> MaxLabel]).result.labels)

\* C36: whatever adds and deletes were made, with or without old_fields,
\* every label a search returns, by vector recall or by a sorter, with or
\* without a filter, is the label of a record that is live.
C36_ResultsAreLive ==
  \A live \in {DOMAIN vector_index_.label_map_} :
    /\ UnfilteredLabels(vector_index_, scalar_index_) \subseteq live
    /\ \A i \in DOMAIN UpdateFilters :
         FilteredLabels(vector_index_, scalar_index_, UpdateFilters[i]) \subseteq live
    /\ \A d \in DOMAIN PriceSortDocs :
         /\ SortedLabels(vector_index_, scalar_index_, d) \subseteq live
         /\ \A i \in DOMAIN UpdateFilters :
              SortedFilteredLabels(vector_index_, scalar_index_, d, UpdateFilters[i])
                \subseteq live

\* the part of it that is vector recall
VectorResultsAreLive ==
  \A live \in {DOMAIN vector_index_.label_map_} :
    /\ UnfilteredLabels(vector_index_, scalar_index_) \subseteq live
    /\ \A i \in DOMAIN UpdateFilters :
         FilteredLabels(vector_index_, scalar_index_, UpdateFilters[i]) \subseteq live

\* the title and the price of a FieldsDict that has them
HasFields(fields) == DOMAIN fields.str_kv_map_ # {}

TitleOf(fields) == fields.str_kv_map_["title"][1]

PriceIn(fields) == fields.dbl_kv_map_["price"]

\* the range filter that selects one price
PointRange(v) == RangeDoc("range", "gte", v, "lte", v)

\* the filters and the sort by price see the record of the label with the
\* fields `new` and not with the fields `old`
SeesNewValues(vi, fs, label, old, new) ==
  /\ TitleOf(old) # TitleOf(new)
       => label \notin FilteredLabels(vi, fs, MustDoc(TitleOf(old)))
  /\ label \in FilteredLabels(vi, fs, MustDoc(TitleOf(new)))
  /\ PriceIn(old) # PriceIn(new)
       => label \notin FilteredLabels(vi, fs, PointRange(PriceIn(old)))
  /\ label \in FilteredLabels(vi, fs, PointRange(PriceIn(new)))
  /\ \A s \in StrayReads :
       \A r \in {handle_sorter_query_sort(PriceSortOps[1], NullBitmap, vi, fs, s)} :
         /\ \E i \in DOMAIN r.labels : r.labels[i] = label
         /\ \A i \in DOMAIN r.labels : r.labels[i] = label => r.scores[i] = PriceIn(new)

\* an add_data for a live label whose record has fields, with other fields
RewritesRecord(l, f, old) ==
  /\ l \in DOMAIN assigned
  /\ HasFields(assigned[l])
  /\ HasFields(UpdateRecords[f])
  /\ UpdateRecords[f] # assigned[l]
  /\ AddDataKept([label |-> l, vector |-> 0, sparse |-> TermWithValue,
                  fields |-> UpdateRecords[f], old_fields |-> old])

\* C37: after add_data for a live label with fields that differ from its
\* current ones, with old_fields given or not, a must or range filter on a
\* replaced value does not return the label, one on the new value does, and
\* the sort by price carries the new price for it.
C37_UpdateSeesNewValues ==
  [][\A l \in Labels, f \in DOMAIN UpdateRecords :
       \A old \in OldFieldsOf(l) :
         RewritesRecord(l, f, old)
         => SeesNewValues(vector_index_', scalar_index_', l, assigned[l],
                          UpdateRecords[f])]_vars

\* the same for the adds that name the current fields as old_fields
UpdateWithOldSeesNewValues ==
  [][\A l \in Labels, f \in DOMAIN UpdateRecords :
       RewritesRecord(l, f, CurrentFields(l))
       => SeesNewValues(vector_index_', scalar_index_', l, assigned[l],
                        UpdateRecords[f])]_vars

\* ---------------------------------------------------------------------
\* the two paths of SorterOp::calc_topk_result(field_group_set_ptr,
\* valid_bitmap) for one filter bitmap: the priority queue over the offsets of
\* the bitmap, and the walk over the slots of the RangedMap
SmallBitmapPath(op, fs, valid_bitmap) ==
  calc_topk_result_with_small_bitmap(op, fs, valid_bitmap, OffBitmap(valid_bitmap))

StreamingPath(op, fs, valid_bitmap, stray_read) ==
  SorterOp_calc_topk_result_filter(op, fs, OffBitmap(valid_bitmap), stray_read)

SingleDoc(order, topk) ==
  [op |-> JStr("sort"), field |-> JStr("price"), order |-> JStr(order), topk |-> topk]

\* the sorters compared: single-field, center1d and multi-field
SingleSorters ==
  {SorterOp_load_json_doc(SingleDoc(order, topk)) :
     order \in SortOrders, topk \in 1..(MaxOffset + 1)}

CenterSorters ==
  {SorterOp_load_json_doc(CenterDoc(center1d, topk)) :
     center1d \in BoundValues, topk \in 1..(MaxOffset + 1)}

MultiSorters ==
  {SorterOp_load_json_doc(MultiDoc(price_order, rank_order, topk)) :
     price_order \in SortOrders, rank_order \in SortOrders, topk \in 1..(MaxOffset + 1)}

\* the filter bitmaps: every set of offsets below the watermark
FilterBitmaps == {Temp(bits) : bits \in SUBSET (0..(MaxOffset - 1))}

SamePaths(op, valid_bitmap, stray_read) ==
  \A r \in {StreamingPath(op, scalar_index_, valid_bitmap, stray_read)} :
    /\ ~r.undefined
    /\ r.res.offsets = SmallBitmapPath(op, scalar_index_, valid_bitmap).offsets

\* C38: for one sorter (single-field, center1d or multi-field), one filter
\* bitmap and one state of the index, the path over a small bitmap and the
\* streaming path return the same offsets in the same order.
C38_PathsAgree ==
  \A op \in SingleSorters \cup CenterSorters \cup MultiSorters,
     valid_bitmap \in FilterBitmaps, stray_read \in StrayReads :
    SamePaths(op, valid_bitmap, stray_read)

\* the values of a field over the offsets of a bitmap are all different
DistinctOn(field, bits) ==
  /\ bits \subseteq Valued(MapOf(field))
  /\ \A o \in bits, p \in bits :
       o # p => MapOf(field).offset_to_value_[o + 1] # MapOf(field).offset_to_value_[p + 1]

\* the single-field sorters over bitmaps of records with different prices
SinglePathsAgree ==
  \A op \in SingleSorters, valid_bitmap \in FilterBitmaps :
    DistinctOn("price", valid_bitmap.bits) => SamePaths(op, valid_bitmap, 0)

\* the center1d sorters over bitmaps of records with different prices, for
\* a centre below every price
CenterPathsAgree ==
  \A topk \in 1..(MaxOffset + 1), valid_bitmap \in FilterBitmaps :
    DistinctOn("price", valid_bitmap.bits)
    => SamePaths(SorterOp_load_json_doc(CenterDoc(0 - 1, topk)), valid_bitmap, 0)

\* the multi-field sorters over bitmaps of records with different prices
MultiPathsAgree ==
  \A op \in MultiSorters, valid_bitmap \in FilterBitmaps :
    DistinctOn("price", valid_bitmap.bits) => SamePaths(op, valid_bitmap, 0)

\* ---------------------------------------------------------------------
\* the logical offsets of the live records
LiveOffsets == DOMAIN vector_index_.offset_map_

\* C39: after every sequence of adds and deletes the bitmap of
\* make_full_temp is exactly the set of the logical offsets of the live
\* records: the records added without scalar fields are in it, the deleted
\* ones are not.
C39_FullTempIsLive == make_full_temp(scalar_index_).bits = LiveOffsets

\* the live records that have fields are in the bitmap
FullTempHoldsLiveWithFields ==
  \A l \in DOMAIN assigned :
    HasFields(assigned[l])
    => vector_index_.data_buffer_[vector_index_.label_map_[l] + 1].off
         \in make_full_temp(scalar_index_).bits

\* the bitmap is an initial segment of the offsets handed out
FullTempIsPrefix ==
  /\ scalar_index_.element_size_ <= vector_index_.next_logical_offset_
  /\ make_full_temp(scalar_index_).bits = 0..(scalar_index_.element_size_ - 1)

\* ---------------------------------------------------------------------
\* the scalar store that a dump of the current index leaves in memory
AfterDump == IndexManagerImpl_dump(vector_index_, scalar_index_).scalar_index_

\* C40: dump changes no state in memory that a search can read: the
\* representation, the members and the cached cardinality of every bitmap
\* are after the dump what they were before it (the vector store and its
\* term dictionary are not assigned by the dump).
C40_DumpChangesNothing == AfterDump = scalar_index_

BitmapMembers(bm) == bm.roaring_ \cup bm.set_

\* two Bitmaps with the same members and the same cached cardinality
SameButRepresentation(bm, bn) ==
  /\ BitmapMembers(bm) = BitmapMembers(bn)
  /\ bm.nbit_cache_ = bn.nbit_cache_
  /\ bm.has_nbit_cache_ = bn.has_nbit_cache_

\* what a dump does keep: the fields, the keys, the RangedMap vectors, the
\* members and the cached cardinality of every Bitmap; and a Bitmap that is
\* roaring before the dump is left as it is
DumpKeepsMembers ==
  /\ AfterDump.element_size_ = scalar_index_.element_size_
  /\ DOMAIN AfterDump.field_bitmap_groups_map_ = DOMAIN scalar_index_.field_bitmap_groups_map_
  /\ \A f \in DOMAIN scalar_index_.field_bitmap_groups_map_ :
       \A g \in {scalar_index_.field_bitmap_groups_map_[f]},
          h \in {AfterDump.field_bitmap_groups_map_[f]} :
         /\ DOMAIN h.bitmap_group_ = DOMAIN g.bitmap_group_
         /\ \A k \in DOMAIN g.bitmap_group_ :
              /\ SameButRepresentation(g.bitmap_group_[k], h.bitmap_group_[k])
              /\ g.bitmap_group_[k].is_roaring_ => h.bitmap_group_[k] = g.bitmap_group_[k]
         /\ h.rangedmap_ptr_.obj.offset_to_value_ = g.rangedmap_ptr_.obj.offset_to_value_
         /\ Len(h.rangedmap_ptr_.obj.slots_) = Len(g.rangedmap_ptr_.obj.slots_)
         /\ \A i \in DOMAIN g.rangedmap_ptr_.obj.slots_ :
              SameButRepresentation(g.rangedmap_ptr_.obj.slots_[i].bitmap,
                                    h.rangedmap_ptr_.obj.slots_[i].bitmap)
         /\ h.dir_index_ = g.dir_index_

====
